---- MODULE Spec2Model ----
(***************************************************************************)
(* State-machine model of the CME detector server (src/app.js): the        *)
(* in-memory sample buffers, the rule scan (runDetection), the NOAA poll   *)
(* cycle (pollNOAA) and the read-only query handlers.                      *)
(*                                                                         *)
(* Numbers.  Speeds (and the deltaV derived from them) are integers in     *)
(* tenths of km/s, so that Math.round is a real rounding; density and bz   *)
(* are whole numbers.  JavaScript's null is the value Null.                *)
(*                                                                         *)
(* Scaling.  BUFFER_MAX (3000 in the source), DELTA_WINDOW (30) and the    *)
(* detection-log cap DETECTIONS_KEEP (100, the literal of slice(-100)) are *)
(* scaled down so that eviction, look-back and truncation all happen       *)
(* within a few samples.  Every formula below is stated in terms of these  *)
(* names, never of their values.                                           *)
(***************************************************************************)
EXTENDS Integers, Sequences, FiniteSets, TLC

VARIABLES
    plasmaBuffer,   \* app.js:37  let plasmaBuffer = []
    magBuffer,      \* app.js:38  let magBuffer = []
    detections,     \* app.js:39  let detections = []
    mongoDb,        \* app.js:13  TRUE iff dbHelper.connect() succeeded at startup
    pc,             \* position of each pollNOAA invocation in flight
    response,       \* what the last query handler read, NoResponse otherwise
    store,          \* the documents of the store's detections collection,
                    \* in insertion order
    storeFails,     \* TRUE iff the connected store rejects every write
    exp,            \* the GET /export request in flight, NoExport otherwise
    csv,            \* a row of values, the line written for it, its re-parse
    calc,           \* the arguments and the result of one call of a helper
    \* ---- history variables (observations, never read by the program) ----
    pairing,        \* the (plasma, field) pairs as appended, oldest first
    created,        \* the most recently created detections, in creation order
    dirty,          \* TRUE iff the buffer changed since the last rule scan
    rescan,         \* TRUE iff the last rule scan ran on an unchanged buffer
    newDetections,  \* return value of the last rule scan
    scanTrace,      \* per buffer index, what the last rule scan decided
                    \* (the last three are cleared when rows are appended)
    allAscending,   \* TRUE iff every delivered plasma batch was time-ascending
    polls,          \* number of pollNOAA invocations started so far
    afterFailure,   \* TRUE iff the last poll step was a failed cycle
    refDetections   \* the log of a server without a store that is given the
                    \* same deliveries and detect() calls in the same order

vars == <<plasmaBuffer, magBuffer, detections, mongoDb, calc, pc, response,
          store, storeFails, exp, csv,
          pairing, created, dirty, rescan, newDetections, scanTrace,
          allAscending, polls, afterFailure, refDetections>>

----------------------------------------------------------------------------
(* Program constants *)

Null == -999999            \* JavaScript null / undefined (safeNum's failure value)

BUFFER_MAX == 3            \* app.js:24 (3000), scaled
DELTA_WINDOW == 1          \* app.js:25 (30), scaled
DETECTIONS_KEEP == 2       \* app.js:192 slice(-100), scaled

speed_high == 500          \* app.js:30
density_high == 10         \* app.js:31
bz_south == -10            \* app.js:32
deltaV_min == 100          \* app.js:33

LATEST_DEFAULT == 500      \* app.js:250
PREDICT_DEFAULT == 200     \* app.js:269

\* k km/s in the model's unit (tenths of km/s)
Kms(k) == k * 10

Cycles == {1, 2}           \* pollNOAA invocations that can be in flight

(* Bounds of the model *)
MaxPolls == 3              \* pollNOAA invocations in one behaviour

----------------------------------------------------------------------------
(* Helpers *)

Min(a, b) == IF a < b THEN a ELSE b
Max(a, b) == IF a > b THEN a ELSE b

\* Array.prototype.slice(start) for an integer start (negative counts from the end)
SliceFrom(s, start) ==
    LET len == Len(s)
        from == IF start < 0 THEN Max(len + start, 0) ELSE Min(start, len)
    IN  SubSeq(s, from + 1, len)

\* Array.prototype.shift(): drop the first element
Shift(s) == SubSeq(s, 2, Len(s))

\* Math.round on a value in tenths: the nearest whole number, halves upwards
Round(x) == (x + 5) \div 10

SeqsUpTo(S, n) == UNION { [1..k -> S] : k \in 0..n }

\* ToNumber coercion of an operand of binary minus: null -> 0
ToNumber(v) == IF v = Null THEN 0 ELSE v

----------------------------------------------------------------------------
(* Rows as delivered by the upstream, after plasmaRowToObj / magRowToObj *)

PlasmaRow(t, d, v) == [timeISO |-> t, density |-> d, speed |-> v]
MagRow(t, b) == [timeISO |-> t, bz |-> b]

\* the null-valued field row created for an unmatched plasma row
NullMag(t) == [timeISO |-> t, bz |-> Null]

\* the plasma rows the upstream delivers
Quiet == PlasmaRow(1, 3, Kms(300))          \* quiet wind
NoSpeed == PlasmaRow(1, 3, Null)            \* unparsable speed
Jump == PlasmaRow(2, 3, Kms(450))           \* slow and thin
Fast == PlasmaRow(2, 12, Kms(600))          \* fast and dense
Fast4 == PlasmaRow(2, 12, Kms(600) + 4)     \* 600.4 km/s: rounds to 600 too
Dense == PlasmaRow(3, 12, Kms(450))         \* dense, not fast

\* field files: quiet, and southward at time 2
QuietMag == <<MagRow(1, -2), MagRow(2, -2), MagRow(3, -2)>>
SouthMag == <<MagRow(1, -2), MagRow(2, -2), MagRow(2, -12), MagRow(3, -2)>>

\* a day file longer than the buffer: a sustained storm, one row per timestamp
LongPlasma == [i \in 1..(BUFFER_MAX + 1) |-> PlasmaRow(i, 12, Kms(600))]
LongMag == [i \in 1..(BUFFER_MAX + 1) |-> MagRow(i, -12)]

\* the responses a poll can receive: <<plasma rows, field rows>>
Batches ==
    { <<<<>>, <<>>>>,                      \* both files hold a header only
      <<<<>>, QuietMag>>,                  \* no plasma rows
      <<<<Quiet>>, <<>>>>,                 \* no field rows
      <<<<Quiet, Jump>>, QuietMag>>,       \* ascending, and re-delivered
      <<<<Jump, Quiet>>, QuietMag>>,       \* descending
      <<<<Fast>>, SouthMag>>,
      <<<<Fast4>>, SouthMag>>,
      <<<<NoSpeed, Dense>>, QuietMag>>,
      <<LongPlasma, LongMag>> }

Ascending(rows) ==
    \A i \in 1..(Len(rows) - 1) : rows[i].timeISO <= rows[i + 1].timeISO

----------------------------------------------------------------------------
(* SampleBuffer: the append loop of pollNOAA *)

\* (mutant) the field rows are taken by position, not by time
MagByTimeGetFirstRow(magRows, t) ==
    IF magRows = <<>> THEN NullMag(t) ELSE magRows[1]

\* magByTime.get(t) || { bx: null, by: null, bz: null, timeISO: t }
\* (a Map built from magRows keeps the last row of each timestamp)
MagByTimeGet(magRows, t) ==
    LET hits == { i \in DOMAIN magRows : magRows[i].timeISO = t }
    IN  IF hits = {} THEN NullMag(t)
        ELSE magRows[CHOOSE i \in hits : \A j \in hits : j <= i]

\* (mutant) the field buffer is never shifted
PushPairPlasmaShiftOnly(bufs, p, m) ==
    LET pb == Append(bufs.plasma, p)
    IN  [plasma |-> IF Len(pb) > BUFFER_MAX THEN Shift(pb) ELSE pb,
         mag    |-> Append(bufs.mag, m)]

\* (mutant) a buffer that is too long gives up its two oldest pairs
PushPairShiftTwice(bufs, p, m) ==
    LET pb == Append(bufs.plasma, p)
        mb == Append(bufs.mag, m)
    IN  [plasma |-> IF Len(pb) > BUFFER_MAX THEN Shift(Shift(pb)) ELSE pb,
         mag    |-> IF Len(mb) > BUFFER_MAX THEN Shift(Shift(mb)) ELSE mb]

\* (mutant) pop in place of shift: a full buffer gives up the pair just pushed
PushPairEvictNewest(bufs, p, m) ==
    LET pb == Append(bufs.plasma, p)
        mb == Append(bufs.mag, m)
    IN  [plasma |-> IF Len(pb) > BUFFER_MAX THEN SubSeq(pb, 1, Len(pb) - 1) ELSE pb,
         mag    |-> IF Len(mb) > BUFFER_MAX THEN SubSeq(mb, 1, Len(mb) - 1) ELSE mb]

\* one iteration of the loop: push both, then shift each buffer that is too long
PushPair(bufs, p, m) ==
    LET pb == Append(bufs.plasma, p)
        mb == Append(bufs.mag, m)
    IN  [plasma |-> IF Len(pb) > BUFFER_MAX THEN Shift(pb) ELSE pb,
         mag    |-> IF Len(mb) > BUFFER_MAX THEN Shift(mb) ELSE mb]

\* (mutant) the loop gives way after its first iteration
AppendRowsFirstOnly(bufs, plasmaRows, magRows, k) ==
    IF plasmaRows = <<>> THEN bufs
    ELSE PushPair(bufs, plasmaRows[1],
                  MagByTimeGet(magRows, plasmaRows[1].timeISO))

RECURSIVE AppendRows(_, _, _, _)
AppendRows(bufs, plasmaRows, magRows, k) ==
    IF k > Len(plasmaRows) THEN bufs
    ELSE AppendRows(PushPair(bufs, plasmaRows[k],
                             MagByTimeGet(magRows, plasmaRows[k].timeISO)),
                    plasmaRows, magRows, k + 1)

----------------------------------------------------------------------------
(* pollNOAA on a response that makes it throw *)

\* what one axios.get settles with: rejected (network error, non-2xx status),
\* timed out after 20 s, or fulfilled with a body; rows are the body's
\* elements after the header
Rejected == [status |-> "error", isArray |-> FALSE, rows |-> <<>>]
TimedOut == [status |-> "timeout", isArray |-> FALSE, rows |-> <<>>]
NotArray == [status |-> "ok", isArray |-> FALSE, rows |-> <<>>]
Body(rows) == [status |-> "ok", isArray |-> TRUE, rows |-> rows]

\* a null element of the body: row[0] throws in plasmaRowToObj / magRowToObj
BadRow == [timeISO |-> Null, bad |-> TRUE]

IsBadRow(row) == "bad" \in DOMAIN row

\* data.slice(1).map(rowToObj) throws
MapThrows(body) ==
    \/ ~body.isArray
    \/ \E k \in DOMAIN body.rows : IsBadRow(body.rows[k])

\* the longest prefix of rows without a bad row
RECURSIVE GoodPrefix(_)
GoodPrefix(rows) ==
    IF rows = <<>> \/ IsBadRow(Head(rows)) THEN <<>>
    ELSE <<Head(rows)>> \o GoodPrefix(Tail(rows))

\* (mutant) rows are converted one by one inside the append loop
PollBodyConvertInLoop(bufs, resp) ==
    IF resp.plasma.status # "ok" \/ resp.mag.status # "ok"
    THEN [threw |-> TRUE, bufs |-> bufs]
    ELSE IF ~resp.plasma.isArray \/ MapThrows(resp.mag)
    THEN [threw |-> TRUE, bufs |-> bufs]
    ELSE [threw |-> MapThrows(resp.plasma),
          bufs  |-> AppendRows(bufs, GoodPrefix(resp.plasma.rows),
                               resp.mag.rows, 1)]

\* the try block of pollNOAA up to the end of the append loop: the awaited
\* fetches and both conversions come before the first push
PollBody(bufs, resp) ==
    IF resp.plasma.status # "ok" \/ resp.mag.status # "ok"
    THEN [threw |-> TRUE, bufs |-> bufs]
    ELSE IF MapThrows(resp.plasma) \/ MapThrows(resp.mag)
    THEN [threw |-> TRUE, bufs |-> bufs]
    ELSE [threw |-> FALSE,
          bufs  |-> AppendRows(bufs, resp.plasma.rows, resp.mag.rows, 1)]

\* the failing responses tried: a network error and a timeout on either
\* fetch, a body that is not an array, a null row after good ones
FailingResponses ==
    { [plasma |-> Rejected, mag |-> Body(QuietMag)],
      [plasma |-> Body(<<Fast>>), mag |-> TimedOut],
      [plasma |-> NotArray, mag |-> Body(SouthMag)],
      [plasma |-> Body(<<Quiet, Jump>>), mag |-> NotArray],
      [plasma |-> Body(<<Fast, BadRow>>), mag |-> Body(SouthMag)],
      [plasma |-> Body(<<Quiet, Jump>>), mag |-> Body(SouthMag \o <<BadRow>>)] }

----------------------------------------------------------------------------
(* RuleEngine: runDetection *)

\* deltaV of buffer index i (1-based here, so j >= 0 reads j >= 1)
DeltaV(pb, i, speed) ==
    LET j == i - DELTA_WINDOW
    IN  IF j >= 1 /\ j <= Len(pb) THEN speed - ToNumber(pb[j].speed) ELSE Null

\* (mutant) the shock disjunct without "|| condDensity"
IsCMEShockNeedsSpeed(speed, density, bz, deltaV) ==
    LET condHighSpeed == speed > Kms(speed_high)
        condDensity   == density > density_high
        condSouthBz   == bz < bz_south
        condDeltaV    == deltaV # Null /\ deltaV > Kms(deltaV_min)
    IN  \/ condDeltaV /\ condHighSpeed
        \/ condHighSpeed /\ condDensity /\ condSouthBz

\* (mutant) a shock alone fires
IsCMEShockAlone(speed, density, bz, deltaV) ==
    LET condHighSpeed == speed > Kms(speed_high)
        condDensity   == density > density_high
        condSouthBz   == bz < bz_south
        condDeltaV    == deltaV # Null /\ deltaV > Kms(deltaV_min)
    IN  \/ condDeltaV
        \/ condHighSpeed /\ condDensity /\ condSouthBz

IsCME(speed, density, bz, deltaV) ==
    LET condHighSpeed == speed > Kms(speed_high)
        condDensity   == density > density_high
        condSouthBz   == bz < bz_south
        condDeltaV    == deltaV # Null /\ deltaV > Kms(deltaV_min)
    IN  \/ condDeltaV /\ (condHighSpeed \/ condDensity)
        \/ condHighSpeed /\ condDensity /\ condSouthBz

\* `${p.timeISO}_${Math.round(speed)}`: the two parts determine the string
DetectionId(timeISO, speed) == <<timeISO, Round(speed)>>

MakeDetection(p, bz, deltaV) ==
    [id      |-> DetectionId(p.timeISO, p.speed),
     timeISO |-> p.timeISO,
     speed   |-> p.speed,
     density |-> p.density,
     bz      |-> bz,
     deltaV  |-> IF deltaV = Null THEN Null ELSE Round(deltaV)]

HasId(ds, id) == \E k \in DOMAIN ds : ds[k].id = id

\* (mutant) this scan's own detections are not looked at
IsDuplicateLogOnly(dets, new, id) == HasId(dets, id)

\* detections.some(d => d.id === id) || newDetections.some(d => d.id === id)
IsDuplicate(dets, new, id) == HasId(dets, id) \/ HasId(new, id)

\* what the scan decided at one index
Skipped == [skipped |-> TRUE, deltaV |-> Null, isCME |-> FALSE]
Decided(dv, cme) == [skipped |-> FALSE, deltaV |-> dv, isCME |-> cme]

\* the body of the for loop at index i, given the detections created so far
ScanStep(pb, mb, dets, i, acc) ==
    LET p == pb[i]
        m == IF i \in DOMAIN mb THEN mb[i] ELSE [bz |-> Null]
    IN  IF p.speed = Null \/ p.density = Null \/ m.bz = Null
        THEN [new |-> acc.new, trace |-> Append(acc.trace, Skipped)]
        ELSE LET deltaV == DeltaV(pb, i, p.speed)
                 isCME  == IsCME(p.speed, p.density, m.bz, deltaV)
                 id     == DetectionId(p.timeISO, p.speed)
                 make   == isCME /\ ~IsDuplicate(dets, acc.new, id)
             IN  [new   |-> IF make
                            THEN Append(acc.new, MakeDetection(p, m.bz, deltaV))
                            ELSE acc.new,
                  trace |-> Append(acc.trace, Decided(deltaV, isCME))]

RECURSIVE ScanFrom(_, _, _, _, _)
ScanFrom(pb, mb, dets, i, acc) ==
    IF i > Len(pb) THEN acc
    ELSE ScanFrom(pb, mb, dets, i + 1, ScanStep(pb, mb, dets, i, acc))

\* (mutant) slice(0, 100): the oldest entries are kept
TruncateLogOldest(ds) == SubSeq(ds, 1, Min(Len(ds), DETECTIONS_KEEP))

\* detections.concat(newDetections).slice(-100)
TruncateLog(ds) == SliceFrom(ds, 0 - DETECTIONS_KEEP)

\* a runDetection that refreshes the log entry of an id it finds again, as
\* the store's upsert does
RunDetectionRefreshing(pb, mb, dets) ==
    LET Refresh(ds, d) ==
            IF HasId(ds, d.id)
            THEN [k \in DOMAIN ds |-> IF ds[k].id = d.id THEN d ELSE ds[k]]
            ELSE Append(ds, d)
        RECURSIVE RefreshAll(_, _, _)
        RefreshAll(ds, new, k) ==
            IF k > Len(new) THEN ds
            ELSE RefreshAll(Refresh(ds, new[k]), new, k + 1)
        r == ScanFrom(pb, mb, <<>>, 1, [new |-> <<>>, trace |-> <<>>])
    IN  [new        |-> r.new,
         trace      |-> r.trace,
         detections |-> IF r.new # <<>>
                        THEN TruncateLog(RefreshAll(dets, r.new, 1))
                        ELSE dets]

\* the whole of runDetection on the given buffers and log
RunDetection(pb, mb, dets) ==
    LET r == ScanFrom(pb, mb, dets, 1, [new |-> <<>>, trace |-> <<>>])
    IN  [new        |-> r.new,
         trace      |-> r.trace,
         detections |-> IF r.new # <<>> THEN TruncateLog(dets \o r.new) ELSE dets]

----------------------------------------------------------------------------
(* The store's detections collection *)

\* updateOne({ id: d.id }, { $set: d }, { upsert: true }): the document with
\* that id takes d's fields where it stands, a new id is inserted at the end
Upsert(docs, d) ==
    IF HasId(docs, d.id)
    THEN [k \in DOMAIN docs |-> IF docs[k].id = d.id THEN d ELSE docs[k]]
    ELSE Append(docs, d)

\* newDetections.forEach(d => ... updateOne ...), every write succeeding
RECURSIVE Mirror(_, _, _)
Mirror(docs, new, k) ==
    IF k > Len(new) THEN docs
    ELSE Mirror(Upsert(docs, new[k]), new, k + 1)

----------------------------------------------------------------------------
(* History kept beside the program state *)

LastN(s, n) == IF Len(s) <= n THEN s ELSE SubSeq(s, Len(s) - n + 1, Len(s))

PairsOf(plasmaRows, magRows) ==
    [k \in DOMAIN plasmaRows |->
        <<plasmaRows[k], MagByTimeGet(magRows, plasmaRows[k].timeISO)>>]

NoResponse == [op |-> "none"]

NoExport == [phase |-> "none"]

NoCsv == [phase |-> "none"]

NoCalc == [op |-> "none"]

----------------------------------------------------------------------------
(* The helpers called one at a time: nothing else of the server moves *)

\* the server's state while a helper is looked at on its own
Blank ==
    /\ plasmaBuffer = <<>>
    /\ magBuffer = <<>>
    /\ detections = <<>>
    /\ mongoDb = FALSE
    /\ pc = [c \in Cycles |-> "idle"]
    /\ response = NoResponse
    /\ store = <<>>
    /\ storeFails = FALSE
    /\ exp = NoExport
    /\ csv = NoCsv
    /\ pairing = <<>>
    /\ created = <<>>
    /\ dirty = TRUE
    /\ rescan = FALSE
    /\ newDetections = <<>>
    /\ scanTrace = <<>>
    /\ allAscending = TRUE
    /\ polls = 0
    /\ afterFailure = FALSE
    /\ refDetections = <<>>

\* a helper returns: only calc changes
Returns(result) ==
    /\ calc' = [calc EXCEPT !.out = result, !.done = TRUE]
    /\ UNCHANGED <<plasmaBuffer, magBuffer, detections, mongoDb, pc, response,
                   store, storeFails, exp, csv, pairing, created, dirty,
                   rescan, newDetections, scanTrace, allAscending, polls,
                   afterFailure, refDetections>>

\* Math.round(n / d) for d > 0: halves go up
RoundDiv(n, d) == (2 * n + d) \div (2 * d)

----------------------------------------------------------------------------
(* Scorer: computeScoreAndSeverity.  Speed and deltaV are in tenths of     *)
(* km/s; the score is kept exactly, as a number of SCORE_DEN-ths of 0.01.  *)

SPEED_NORM_LO == 400       \* (speed - 400) / (2000 - 400)
SPEED_NORM_HI == 2000
DENSITY_NORM_LO == 2       \* (density - 2) / (50 - 2)
DENSITY_NORM_HI == 50
BZ_NORM_SPAN == 50         \* -bz / 50
DELTAV_NORM_SPAN == 500    \* deltaV / 500
W_SPEED == 35              \* the weights 0.35, 0.30, 0.20, 0.15 in hundredths
W_DELTAV == 30
W_DENSITY == 20
W_BZ == 15

\* x || 0
OrZero(x) == IF x = Null THEN 0 ELSE x

\* the spans of the four linear maps in the model's units, and a common
\* multiple of the four (240000)
SpeedSpan == Kms(SPEED_NORM_HI - SPEED_NORM_LO)
DensitySpan == DENSITY_NORM_HI - DENSITY_NORM_LO
DeltaVSpan == Kms(DELTAV_NORM_SPAN)
SCORE_DEN == DensitySpan * DeltaVSpan

\* clamp01(x / span), in span-ths
Clamp01(x, span) == Max(0, Min(span, x))

\* (mutant) northward field counts, southward does not
ScoreExactNorthward(speed, density, bz, deltaV) ==
    LET speedNorm   == Clamp01(OrZero(speed) - Kms(SPEED_NORM_LO), SpeedSpan)
        densityNorm == Clamp01(OrZero(density) - DENSITY_NORM_LO, DensitySpan)
        bzNorm      == IF bz # Null /\ bz > 0 THEN Clamp01(bz, BZ_NORM_SPAN) ELSE 0
        deltaVNorm  == IF deltaV # Null THEN Clamp01(deltaV, DeltaVSpan) ELSE 0
    IN  Max(0, Min(100 * SCORE_DEN,
            W_SPEED * speedNorm * (SCORE_DEN \div SpeedSpan)
          + W_DELTAV * deltaVNorm * (SCORE_DEN \div DeltaVSpan)
          + W_DENSITY * densityNorm * (SCORE_DEN \div DensitySpan)
          + W_BZ * bzNorm * (SCORE_DEN \div BZ_NORM_SPAN)))

\* the score before rounding, in SCORE_DEN-ths of 0.01
ScoreExact(speed, density, bz, deltaV) ==
    LET speedNorm   == Clamp01(OrZero(speed) - Kms(SPEED_NORM_LO), SpeedSpan)
        densityNorm == Clamp01(OrZero(density) - DENSITY_NORM_LO, DensitySpan)
        bzNorm      == IF bz # Null /\ bz < 0 THEN Clamp01(0 - bz, BZ_NORM_SPAN) ELSE 0
        deltaVNorm  == IF deltaV # Null THEN Clamp01(deltaV, DeltaVSpan) ELSE 0
    IN  Max(0, Min(100 * SCORE_DEN,
            W_SPEED * speedNorm * (SCORE_DEN \div SpeedSpan)
          + W_DELTAV * deltaVNorm * (SCORE_DEN \div DeltaVSpan)
          + W_DENSITY * densityNorm * (SCORE_DEN \div DensitySpan)
          + W_BZ * bzNorm * (SCORE_DEN \div BZ_NORM_SPAN)))

LABEL_STRONG == 75         \* score > 0.75, 0.5, 0.25
LABEL_MODERATE == 50
LABEL_MILD == 25
CLASS_CRIT == 60           \* score > 0.6, 0.3
CLASS_WARN == 30

\* the label and the class of a score given in den-ths of 0.01
SeverityLabel(score, den) ==
    IF score > LABEL_STRONG * den THEN "Strong"
    ELSE IF score > LABEL_MODERATE * den THEN "Moderate"
    ELSE IF score > LABEL_MILD * den THEN "Mild"
    ELSE "Nominal"

SeverityClass(score, den) ==
    IF score > CLASS_CRIT * den THEN "crit"
    ELSE IF score > CLASS_WARN * den THEN "warn"
    ELSE "info"

\* the returned record; score is Math.round(score*100)/100 in hundredths
computeScoreAndSeverity(speed, density, bz, deltaV) ==
    LET score == ScoreExact(speed, density, bz, deltaV)
    IN  [score          |-> RoundDiv(score, SCORE_DEN),
         severity_label |-> SeverityLabel(score, SCORE_DEN),
         severity_class |-> SeverityClass(score, SCORE_DEN)]

\* the arguments tried: below, inside and beyond each linear map, and the
\* combinations that put the score just above a threshold
ScoreSpeeds == {Kms(300), Kms(450), Kms(600), Kms(1200), Kms(2000), Kms(2500)}
ScoreDensities == {1, 12, 26, 50, 60}
ScoreBzs == {5, 0, -1, -12, -17, -50, -60}
ScoreDeltaVs == {Null, Kms(-50), 0, Kms(150), Kms(330), Kms(500), Kms(600)}

InitScore ==
    /\ Blank
    /\ calc \in { [op |-> "score", done |-> FALSE, out |-> <<>>,
                   speed |-> v, density |-> d, bz |-> b, deltaV |-> dv] :
                  v \in ScoreSpeeds, d \in ScoreDensities,
                  b \in ScoreBzs, dv \in ScoreDeltaVs }

Score ==
    /\ calc.op = "score"
    /\ ~calc.done
    /\ Returns(computeScoreAndSeverity(calc.speed, calc.density, calc.bz,
                                       calc.deltaV))

NextScore == Score

SpecScore == InitScore /\ [][NextScore]_vars

-----------------------------------------------------------------------------
(* Forecaster: simpleEwmaForecast, in exact arithmetic *)

\* EWMA_ALPHA = 0.25 as the fraction ALPHA_NUM / ALPHA_DEN
ALPHA_NUM == 1
ALPHA_DEN == 4
FORECAST_STEPS == 6

\* the longest input array tried
MaxArrLen == 4

\* the loop  s = alpha*arr[i] + (1-alpha)*s  entered with s = arr[1] seeded as
\* the fraction s.num / s.den; one iteration multiplies the denominator by
\* ALPHA_DEN
RECURSIVE EwmaLoop(_, _, _)
EwmaLoop(arr, i, s) ==
    IF i > Len(arr) THEN s
    ELSE EwmaLoop(arr, i + 1,
                  [num |-> ALPHA_NUM * arr[i] * s.den + (ALPHA_DEN - ALPHA_NUM) * s.num,
                   den |-> ALPHA_DEN * s.den])

\* a forecaster that smooths from zero in place of the first element
simpleEwmaForecastFromZero(arr, steps) ==
    IF Len(arr) = 0 THEN <<>>
    ELSE LET s == EwmaLoop(arr, 1, [num |-> 0, den |-> 1])
         IN  [k \in 1..steps |-> RoundDiv(s.num, s.den)]

simpleEwmaForecast(arr, steps) ==
    IF Len(arr) = 0 THEN <<>>
    ELSE LET s == EwmaLoop(arr, 2, [num |-> arr[1], den |-> 1])
         IN  [k \in 1..steps |-> RoundDiv(s.num, s.den)]

\* the values of the arrays tried: negative, zero, small and solar-wind sized
ForecastValues == {-13, 0, 3, 450, 702}

InitForecast ==
    /\ Blank
    /\ calc \in [op : {"forecast"}, done : {FALSE}, out : {<<>>},
                 arr : SeqsUpTo(ForecastValues, MaxArrLen)]

Forecast ==
    /\ calc.op = "forecast"
    /\ ~calc.done
    /\ Returns(simpleEwmaForecast(calc.arr, FORECAST_STEPS))

NextForecast == Forecast

SpecForecast == InitForecast /\ [][NextForecast]_vars

-----------------------------------------------------------------------------
(* AnomalyDetector: detectAnomalyAt, the z-test decided in exact arithmetic *)

WIN == 3                   \* samples of the trailing window
MIN_VALS == 2              \* non-null values the window needs
Z_MAX == 3

\* arr[i]?.[field] for a 0-based index i: undefined (as Null) off the array
At(arr, field, i) ==
    IF i >= 0 /\ i < Len(arr) THEN arr[i + 1][field] ELSE Null

\* the loop collecting the non-null values of arr[i .. idx-1]
RECURSIVE Vals(_, _, _, _)
Vals(arr, field, i, idx) ==
    IF i >= idx THEN <<>>
    ELSE (IF At(arr, field, i) # Null THEN <<At(arr, field, i)>> ELSE <<>>)
         \o Vals(arr, field, i + 1, idx)

\* vals.reduce((a,b) => a + f(b), 0) for f the identity or the square
RECURSIVE Reduce(_, _)
Reduce(vals, squared) ==
    IF vals = <<>> THEN 0
    ELSE (IF squared THEN Head(vals) * Head(vals) ELSE Head(vals))
         + Reduce(Tail(vals), squared)

\* a zCheck that tests whatever the window holds
zCheckAnyCount(arr, field, idx) ==
    LET vals == Vals(arr, field, Max(0, idx - WIN), idx)
        cur == At(arr, field, idx)
    IN  IF vals = <<>> \/ cur = Null THEN [ok |-> FALSE]
        ELSE [ok |-> TRUE, n |-> Len(vals), sum |-> Reduce(vals, FALSE),
              sumsq |-> Reduce(vals, TRUE), cur |-> cur]

\* zCheck: no result (ok = FALSE) on too few values or a null current value;
\* otherwise the sums from which mean, sd and z follow
zCheck(arr, field, idx) ==
    LET vals == Vals(arr, field, Max(0, idx - WIN), idx)
        cur == At(arr, field, idx)
    IN  IF Len(vals) < MIN_VALS \/ cur = Null THEN [ok |-> FALSE]
        ELSE [ok |-> TRUE, n |-> Len(vals), sum |-> Reduce(vals, FALSE),
              sumsq |-> Reduce(vals, TRUE), cur |-> cur]

\* zX && Math.abs(zX.z) > 3, with z = (cur - mean) / sd, mean = sum / n and
\* sd = sqrt(sumsq/n - mean^2): both sides multiplied by n * sd and squared.
\* A zero sd is replaced by 0.00001, below any difference of two samples, so
\* z then exceeds 3 exactly when cur differs from the mean.
Exceeds(r) ==
    /\ r.ok
    /\ LET dev == r.n * r.cur - r.sum
           nvar == r.n * r.sumsq - r.sum * r.sum
       IN  IF nvar = 0 THEN dev # 0
           ELSE dev * dev > Z_MAX * Z_MAX * nvar

detectAnomalyAt(bufs, idx) ==
    LET speed == Exceeds(zCheck(bufs.plasma, "speed", idx))
        bz == Exceeds(zCheck(bufs.mag, "bz", idx))
        density == Exceeds(zCheck(bufs.plasma, "density", idx))
        triggers == (IF speed THEN <<"speed">> ELSE <<>>)
                    \o (IF bz THEN <<"bz">> ELSE <<>>)
                    \o (IF density THEN <<"density">> ELSE <<>>)
    IN  [speed |-> speed, bz |-> bz, density |-> density,
         triggers |-> triggers, isAnomaly |-> Len(triggers) > 0]

\* the samples tried, as <<speed, density, bz>>: two calm ones, a storm, a
\* speed jump alone, and a sample of unparsable values
AnomalySamples ==
    { <<Kms(30), 3, -2>>, <<Kms(31), 3, -2>>, <<Kms(60), 12, -30>>,
      <<Kms(60), 3, -2>>, <<Null, Null, Null>> }

AnomalyPlasma(ss) == [i \in DOMAIN ss |-> PlasmaRow(i, ss[i][2], ss[i][1])]
AnomalyMag(ss) == [i \in DOMAIN ss |-> MagRow(i, ss[i][3])]

\* buffers of up to one sample more than the window, and every index the
\* callers pass: a buffer position, or -1 from /predict on empty buffers
InitAnomaly ==
    /\ Blank
    /\ \E ss \in SeqsUpTo(AnomalySamples, WIN + 1) :
       \E idx \in -1 .. (Len(ss) - 1) :
           calc = [op |-> "anomaly", done |-> FALSE, out |-> <<>>,
                   plasma |-> AnomalyPlasma(ss), mag |-> AnomalyMag(ss),
                   idx |-> idx]

Anomaly ==
    /\ calc.op = "anomaly"
    /\ ~calc.done
    /\ Returns(detectAnomalyAt([plasma |-> calc.plasma, mag |-> calc.mag],
                               calc.idx))

NextAnomaly == Anomaly

SpecAnomaly == InitAnomaly /\ [][NextAnomaly]_vars

----------------------------------------------------------------------------
(* Initial state: empty buffers; the durable store connected or not *)

Init ==
    /\ plasmaBuffer = <<>>
    /\ magBuffer = <<>>
    /\ detections = <<>>
    /\ mongoDb \in BOOLEAN
    /\ calc = NoCalc
    /\ pc = [c \in Cycles |-> "idle"]
    /\ response = NoResponse
    /\ pairing = <<>>
    /\ created = <<>>
    /\ dirty = TRUE
    /\ rescan = FALSE
    /\ newDetections = <<>>
    /\ scanTrace = <<>>
    /\ allAscending = TRUE
    /\ polls = 0
    /\ store = <<>>
    /\ storeFails \in BOOLEAN
    /\ storeFails => mongoDb
    /\ exp = NoExport
    /\ csv = NoCsv
    /\ afterFailure = FALSE
    /\ refDetections = <<>>

\* runDetection() called on buffers pb, mb: the log and the scan's observations
Scanned(pb, mb, wasDirty) ==
    LET r == RunDetection(pb, mb, detections)
    IN  /\ detections' = r.detections
        /\ newDetections' = r.new
        /\ scanTrace' = r.trace
        /\ created' = LastN(created \o r.new, DETECTIONS_KEEP + 1)
        /\ rescan' = ~wasDirty
        /\ dirty' = FALSE
        /\ store' = IF mongoDb /\ ~storeFails THEN Mirror(store, r.new, 1)
                     ELSE store

\* the interval timer (or startup) calls pollNOAA: the two fetches are issued.
\* A fetch ends within its 20 s timeout, well inside the 60 s interval, so a
\* new invocation never finds another one still fetching.
\* An invocation whose promise rejected would end the trigger: at startup
\* setInterval is only reached after  await pollNOAA()  returns, and later an
\* unhandled rejection ends the process.
PollStart(c) ==
    /\ pc[c] = "idle"
    /\ \A o \in Cycles : pc[o] # "fetching"
    /\ \A o \in Cycles : pc[o] # "rejected"
    /\ polls < MaxPolls
    /\ polls' = polls + 1
    /\ pc' = [pc EXCEPT ![c] = "fetching"]
    /\ afterFailure' = FALSE
    /\ UNCHANGED <<response, store, storeFails, exp, csv, refDetections>>
    /\ UNCHANGED <<plasmaBuffer, magBuffer, detections, mongoDb, calc, pairing,
                   created, dirty, rescan, newDetections, scanTrace,
                   allAscending>>

\* a pollNOAA without its catch: the error leaves the invocation as a rejection
PollFailRejects(c, resp) ==
    LET r == PollBody([plasma |-> plasmaBuffer, mag |-> magBuffer], resp)
    IN  /\ pc[c] = "fetching"
        /\ r.threw
        /\ plasmaBuffer' = r.bufs.plasma
        /\ magBuffer' = r.bufs.mag
        /\ pc' = [pc EXCEPT ![c] = "rejected"]
        /\ afterFailure' = TRUE
        /\ UNCHANGED <<response, store, storeFails, exp, csv, refDetections>>
        /\ UNCHANGED <<detections, mongoDb, calc, pairing, created, dirty, rescan,
                       newDetections, scanTrace, allAscending, polls>>

\* the fetches settle with a response on which the body of pollNOAA throws:
\* the catch logs and the invocation returns
PollFail(c, resp) ==
    LET r == PollBody([plasma |-> plasmaBuffer, mag |-> magBuffer], resp)
    IN  /\ pc[c] = "fetching"
        /\ r.threw
        /\ plasmaBuffer' = r.bufs.plasma
        /\ magBuffer' = r.bufs.mag
        /\ pc' = [pc EXCEPT ![c] = "idle"]
        /\ afterFailure' = TRUE
        /\ UNCHANGED <<response, store, storeFails, exp, csv, refDetections>>
        /\ UNCHANGED <<detections, mongoDb, calc, pairing, created, dirty, rescan,
                       newDetections, scanTrace, allAscending, polls>>

\* both fetches resolve: rows are parsed and appended in one synchronous run;
\* without a store the rule scan follows at once, with one the cycle awaits
\* the bulk writes first
PollDeliver(c, plasmaRows, magRows) ==
    LET bufs == AppendRows([plasma |-> plasmaBuffer, mag |-> magBuffer],
                           plasmaRows, magRows, 1)
        nowDirty == dirty \/ plasmaRows # <<>>
    IN  /\ pc[c] = "fetching"
        /\ plasmaBuffer' = bufs.plasma
        /\ magBuffer' = bufs.mag
        /\ pairing' = LastN(pairing \o PairsOf(plasmaRows, magRows), BUFFER_MAX)
        /\ allAscending' = (allAscending /\ Ascending(plasmaRows))
        /\ UNCHANGED <<response, storeFails, exp, csv>>
        /\ UNCHANGED <<mongoDb, calc, polls>>
        /\ afterFailure' = FALSE
        /\ refDetections' =
               RunDetection(bufs.plasma, bufs.mag, refDetections).detections
        /\ IF mongoDb
           THEN /\ pc' = [pc EXCEPT ![c] = "persisting"]
                /\ dirty' = nowDirty
                /\ rescan' = (rescan /\ plasmaRows = <<>>)
                /\ newDetections' =
                       IF plasmaRows = <<>> THEN newDetections ELSE <<>>
                /\ scanTrace' = IF plasmaRows = <<>> THEN scanTrace ELSE <<>>
                /\ UNCHANGED <<detections, created, store>>
           ELSE /\ pc' = [pc EXCEPT ![c] = "idle"]
                /\ Scanned(bufs.plasma, bufs.mag, nowDirty)

\* the bulk writes settle (fulfilled, or rejected and caught): the rule scan runs
PollPersisted(c) ==
    /\ pc[c] = "persisting"
    /\ pc' = [pc EXCEPT ![c] = "idle"]
    /\ Scanned(plasmaBuffer, magBuffer, dirty)
    /\ UNCHANGED <<response, storeFails, exp, csv, refDetections>>
    /\ UNCHANGED <<plasmaBuffer, magBuffer, mongoDb, calc, pairing, allAscending,
                   polls, afterFailure>>

\* GET /cme-detect
Detect ==
    /\ Scanned(plasmaBuffer, magBuffer, dirty)
    /\ refDetections' =
           RunDetection(plasmaBuffer, magBuffer, refDetections).detections
    /\ UNCHANGED <<response, storeFails, exp, csv>>
    /\ UNCHANGED <<plasmaBuffer, magBuffer, mongoDb, calc, pc, pairing, allAscending,
                   polls, afterFailure>>

\* Number(req.query.n) || dflt: NaN (a missing or non-numeric n) and 0 are falsy
EffectiveN(n, dflt) == IF n = Null \/ n = 0 THEN dflt ELSE n

\* the values of Number(req.query.n) tried: NaN (as Null), negative, zero,
\* positive within and beyond the buffer
QueryN == {Null, -1, 0, 1, 2, BUFFER_MAX + 1}

\* buf.at(-1): undefined on an empty array
Missing == [missing |-> TRUE]
IsMissing(x) == "missing" \in DOMAIN x
AtLast(buf) == IF buf = <<>> THEN Missing ELSE buf[Len(buf)]

\* {}: every property read gives undefined
EmptyObj == [timeISO |-> Null, density |-> Null, speed |-> Null, bz |-> Null]

\* (mutant) the newest sample is used as found
OrEmptyAbsent(x) == x

\* x || {}
OrEmpty(x) == IF IsMissing(x) THEN EmptyObj ELSE x

\* slice.map(p => p[field]).filter(v => v != null)
NonNullOf(slice, field) ==
    LET IsVal(v) == v # Null
    IN  SelectSeq([k \in DOMAIN slice |-> slice[k][field]], IsVal)

\* simpleEwmaForecast on speeds, which the model keeps in tenths of km/s:
\* Math.round gives whole km/s
speedForecast(speeds) ==
    IF Len(speeds) = 0 THEN <<>>
    ELSE LET s == EwmaLoop(speeds, 2, [num |-> speeds[1], den |-> 1])
         IN  [k \in 1..FORECAST_STEPS |-> RoundDiv(s.num, 10 * s.den)]

forecastOf(plasmaSlice, magSlice) ==
    [speed |-> speedForecast(NonNullOf(plasmaSlice, "speed")),
     bz    |-> simpleEwmaForecast(NonNullOf(magSlice, "bz"), FORECAST_STEPS)]

\* GET /latest: the slices, the newest timestamp (or null) and the forecasts
Latest(n) ==
    LET plasmaSlice == SliceFrom(plasmaBuffer, 0 - EffectiveN(n, LATEST_DEFAULT))
        magSlice == SliceFrom(magBuffer, 0 - EffectiveN(n, LATEST_DEFAULT))
        last == AtLast(plasmaBuffer)
    IN  /\ response' = [op          |-> "latest",
                        n           |-> n,
                        status      |-> "ok",
                        plasma      |-> plasmaSlice,
                        mag         |-> magSlice,
                        last_polled |-> IF IsMissing(last) THEN Null
                                        ELSE last.timeISO,
                        forecast    |-> forecastOf(plasmaSlice, magSlice)]
        /\ UNCHANGED <<plasmaBuffer, magBuffer, detections, mongoDb, calc, pc,
                       pairing, created, dirty, rescan, newDetections,
                       scanTrace, allAscending, polls>>
        /\ UNCHANGED <<store, storeFails, exp, csv, afterFailure, refDetections>>

\* GET /predict: the forecasts of the slices, and score, severity and anomaly
\* of the newest sample; reading a property of undefined throws, and the
\* request is answered with an error
Predict(n) ==
    LET plasmaSlice == SliceFrom(plasmaBuffer, 0 - EffectiveN(n, PREDICT_DEFAULT))
        magSlice == SliceFrom(magBuffer, 0 - EffectiveN(n, PREDICT_DEFAULT))
        lastP == OrEmpty(AtLast(plasmaBuffer))
        lastM == OrEmpty(AtLast(magBuffer))
        threw == IsMissing(lastP) \/ IsMissing(lastM)
    IN  /\ response' =
               IF threw
               THEN [op |-> "predict", n |-> n, status |-> "threw",
                     plasma |-> plasmaSlice, mag |-> magSlice]
               ELSE [op       |-> "predict",
                     n        |-> n,
                     status   |-> "ok",
                     plasma   |-> plasmaSlice,
                     mag      |-> magSlice,
                     forecast |-> forecastOf(plasmaSlice, magSlice),
                     quick    |-> [score |-> computeScoreAndSeverity(
                                                lastP.speed, lastP.density,
                                                lastM.bz, Null),
                                   anomaly |-> detectAnomalyAt(
                                                [plasma |-> plasmaBuffer,
                                                 mag |-> magBuffer],
                                                Len(plasmaBuffer) - 1)]]
        /\ UNCHANGED <<plasmaBuffer, magBuffer, detections, mongoDb, calc, pc,
                       pairing, created, dirty, rescan, newDetections,
                       scanTrace, allAscending, polls>>
        /\ UNCHANGED <<store, storeFails, exp, csv, afterFailure, refDetections>>

----------------------------------------------------------------------------
(* Spec: the server's ingestion and rule scan, any interleaving *)

Next ==
    \/ \E c \in Cycles : PollStart(c)
    \/ \E c \in Cycles : \E resp \in FailingResponses : PollFail(c, resp)
    \/ \E c \in Cycles : \E b \in Batches : PollDeliver(c, b[1], b[2])
    \/ \E c \in Cycles : PollPersisted(c)
    \/ Detect

Spec == Init /\ [][Next]_vars

----------------------------------------------------------------------------
(* SpecLive: the ingestion cycles alone, with the progress the runtime     *)
(* guarantees: an awaited bulk write settles (fulfilled, or rejected after *)
(* the driver's timeout) and the event loop then resumes the invocation.   *)
(* Nothing is assumed of the upstream: it may fail for ever.               *)

LiveBatches ==
    { <<<<>>, <<>>>>,
      <<<<Quiet>>, <<>>>>,
      <<<<Quiet, Jump>>, QuietMag>>,
      <<<<Fast>>, SouthMag>>,
      <<LongPlasma, LongMag>> }

NextLive ==
    \/ \E c \in Cycles : PollStart(c)
    \/ \E c \in Cycles : \E resp \in FailingResponses : PollFail(c, resp)
    \/ \E c \in Cycles : \E b \in LiveBatches : PollDeliver(c, b[1], b[2])
    \/ \E c \in Cycles : PollPersisted(c)

\* the suspended invocation c resumes after its await: within NextLive this
\* is the step PollPersisted(c) and no other
Resume(c) == pc[c] = "persisting" /\ pc' = [pc EXCEPT ![c] = "idle"]

SpecLive ==
    /\ Init
    /\ [][NextLive]_vars
    /\ \A c \in Cycles : WF_pc(Resume(c))

----------------------------------------------------------------------------
(* SpecRule: the rule scan on every small buffer.  The first poll of a     *)
(* server with a connected store has just appended its rows and awaits the *)
(* bulk writes; the rows are any combination of the values below, one row  *)
(* per timestamp, a row without a field row getting the null-valued one.   *)

MaxRuleLen == 2            \* rows of the first poll

\* 400.4 km/s after 300 km/s is a rise of 100.4 km/s
RuleSpeeds == {Null, Kms(300), Kms(400) + 4, Kms(450), Kms(500), Kms(600)}
RuleDensities == {Null, 3, 12}
RuleBzs == {Null, -2, -12}
RuleSamples == RuleSpeeds \X RuleDensities \X RuleBzs

RulePlasma(ss) == [i \in DOMAIN ss |-> PlasmaRow(i, ss[i][2], ss[i][1])]
RuleMag(ss) ==
    LET all == [i \in DOMAIN ss |-> MagRow(i, ss[i][3])]
        Present(m) == m.bz # Null
    IN  SelectSeq(all, Present)

InitRule ==
    \E ss \in SeqsUpTo(RuleSamples, MaxRuleLen) :
        LET bufs == AppendRows([plasma |-> <<>>, mag |-> <<>>],
                               RulePlasma(ss), RuleMag(ss), 1)
        IN  /\ plasmaBuffer = bufs.plasma
            /\ magBuffer = bufs.mag
            /\ detections = <<>>
            /\ mongoDb = TRUE
            /\ calc = NoCalc
            /\ pc = [c \in Cycles |-> IF c = 1 THEN "persisting" ELSE "idle"]
            /\ response = NoResponse
            /\ pairing = PairsOf(RulePlasma(ss), RuleMag(ss))
            /\ created = <<>>
            /\ dirty = TRUE
            /\ rescan = FALSE
            /\ newDetections = <<>>
            /\ scanTrace = <<>>
            /\ allAscending = TRUE
            /\ polls = 1
            /\ store = <<>>
            /\ storeFails = FALSE
            /\ exp = NoExport
            /\ csv = NoCsv
            /\ afterFailure = FALSE
            /\ refDetections = <<>>

NextRule ==
    \/ \E c \in Cycles : PollPersisted(c)
    \/ Detect

SpecRule == InitRule /\ [][NextRule]_vars

----------------------------------------------------------------------------
(* SpecQuery: the read-only handlers on the buffers left by two polls of a *)
(* server with a connected store, both still awaiting their bulk writes    *)

InitQuery ==
    \E b1 \in Batches : \E b2 \in Batches :
        LET first == AppendRows([plasma |-> <<>>, mag |-> <<>>], b1[1], b1[2], 1)
            bufs == AppendRows(first, b2[1], b2[2], 1)
        IN  /\ plasmaBuffer = bufs.plasma
            /\ magBuffer = bufs.mag
            /\ detections = <<>>
            /\ mongoDb = TRUE
            /\ calc = NoCalc
            /\ pc = [c \in Cycles |-> "persisting"]
            /\ response = NoResponse
            /\ pairing = LastN(PairsOf(b1[1], b1[2]) \o PairsOf(b2[1], b2[2]),
                               BUFFER_MAX)
            /\ created = <<>>
            /\ dirty = TRUE
            /\ rescan = FALSE
            /\ newDetections = <<>>
            /\ scanTrace = <<>>
            /\ allAscending = (Ascending(b1[1]) /\ Ascending(b2[1]))
            /\ polls = 2
            /\ store = <<>>
            /\ storeFails = FALSE
            /\ exp = NoExport
            /\ csv = NoCsv
            /\ afterFailure = FALSE
            /\ refDetections = <<>>

NextQuery ==
    \/ \E n \in QueryN : Latest(n)
    \/ \E n \in QueryN : Predict(n)

SpecQuery == InitQuery /\ [][NextQuery]_vars

----------------------------------------------------------------------------
(* SpecPredict: GET /latest and GET /predict on every small buffer, the    *)
(* empty one and those with unparsable values included; the first poll has *)
(* appended its rows and awaits the bulk writes                            *)

InitPredict ==
    \E ss \in SeqsUpTo(AnomalySamples, BUFFER_MAX) :
        /\ plasmaBuffer = AnomalyPlasma(ss)
        /\ magBuffer = AnomalyMag(ss)
        /\ detections = <<>>
        /\ mongoDb = TRUE
        /\ calc = NoCalc
        /\ pc = [c \in Cycles |-> IF c = 1 THEN "persisting" ELSE "idle"]
        /\ response = NoResponse
        /\ pairing = [i \in DOMAIN ss |-> <<AnomalyPlasma(ss)[i], AnomalyMag(ss)[i]>>]
        /\ created = <<>>
        /\ dirty = TRUE
        /\ rescan = FALSE
        /\ newDetections = <<>>
        /\ scanTrace = <<>>
        /\ allAscending = TRUE
        /\ polls = 1
        /\ store = <<>>
        /\ storeFails = FALSE
        /\ exp = NoExport
        /\ csv = NoCsv
        /\ afterFailure = FALSE
        /\ refDetections = <<>>

NextPredict ==
    \/ \E n \in QueryN : Latest(n)
    \/ \E n \in QueryN : Predict(n)

SpecPredict == InitPredict /\ [][NextPredict]_vars

----------------------------------------------------------------------------
(* ExportStreamer: GET /export *)

EXPORT_LIMIT_MAX == 50000
EXPORT_LIMIT_DEFAULT == 1000

\* Math.min(50000, Number(req.query.limit) || 1000): NaN (a missing or
\* non-numeric limit) and 0 are falsy, a negative number is kept
EffectiveLimit(raw) ==
    Min(EXPORT_LIMIT_MAX,
        IF raw = Null \/ raw = 0 THEN EXPORT_LIMIT_DEFAULT ELSE raw)

\* the values of Number(req.query.limit) tried
ExportLimits == {Null, -1, 0, 1, 2, EXPORT_LIMIT_MAX + 1}

\* (mutant) the limit is not applied to the log
MemoryRowsAll(dets, limit) == dets

\* detections.slice(-limit)
MemoryRows(dets, limit) == SliceFrom(dets, 0 - limit)

\* find({}).sort({ timeISO: -1 }): every order of the documents that is
\* descending in timeISO (the order among equal times is the store's choice)
SortedByTimeDesc(docs) ==
    LET n == Len(docs)
        Desc(q) == \A i \in 1..n : \A j \in 1..n :
                       i < j => docs[q[i]].timeISO >= docs[q[j]].timeISO
    IN  { [i \in 1..n |-> docs[q[i]]] : q \in {r \in Permutations(1..n) : Desc(r)} }

\* cursor.limit(limit): the first |limit| documents (a negative limit asks
\* for that many in a single batch); limit is never 0 here
Limited(docs, limit) ==
    SubSeq(docs, 1, Min(Len(docs), IF limit < 0 THEN 0 - limit ELSE limit))

\* the results find({}).sort({ timeISO: -1 }).limit(limit) can deliver
StoreFind(docs, limit) == { Limited(r, limit) : r \in SortedByTimeDesc(docs) }

\* ---- CSV text: a text is a sequence of characters; a number's digits and
\* ---- a column name count as one character each
Quote == "\""
Comma == ","
LF == "\n"
CR == "\r"
BOM == "uFEFF"

\* the columns of the modelled detection fields, in the order of cols (the
\* derived columns pdyn .. forecast_arrival_hours are written the same way)
cols == <<"id", "timeISO", "speed", "density", "bz", "deltaV">>

\* JavaScript values: null, a number, a string
JsNull == [t |-> "null", n |-> 0, s |-> <<>>]
JsNum(n) == [t |-> "num", n |-> n, s |-> <<>>]
JsStr(s) == [t |-> "str", n |-> 0, s |-> s]

\* doc[c]: the value of column c of a detection
Field(d, c) ==
    IF c = "id" THEN JsStr(<<ToString(d.id[1]), "_", ToString(d.id[2])>>)
    ELSE IF c = "timeISO" THEN JsStr(<<ToString(d.timeISO)>>)
    ELSE IF d[c] = Null THEN JsNull
    ELSE JsNum(d[c])

\* String(v) of a value that is not null
String(v) == IF v.t = "num" THEN <<ToString(v.n)>> ELSE v.s

Includes(s, ch) == \E k \in DOMAIN s : s[k] = ch

\* s.replace(/"/g, '""')
RECURSIVE DoubleQuotes(_)
DoubleQuotes(s) ==
    IF s = <<>> THEN <<>>
    ELSE (IF Head(s) = Quote THEN <<Quote, Quote>> ELSE <<Head(s)>>)
         \o DoubleQuotes(Tail(s))

\* (mutant) the field is quoted, its quotes are not doubled
csvEscapeNoDoubling(v) ==
    IF v.t = "null" THEN <<>>
    ELSE LET s == String(v)
         IN  IF Includes(s, Quote) \/ Includes(s, Comma)
                \/ Includes(s, LF) \/ Includes(s, CR)
             THEN <<Quote>> \o s \o <<Quote>>
             ELSE s

csvEscape(v) ==
    IF v.t = "null" THEN <<>>
    ELSE LET s == String(v)
         IN  IF Includes(s, Quote) \/ Includes(s, Comma)
                \/ Includes(s, LF) \/ Includes(s, CR)
             THEN <<Quote>> \o DoubleQuotes(s) \o <<Quote>>
             ELSE s

\* texts.join(',')
RECURSIVE Join(_)
Join(texts) ==
    IF texts = <<>> THEN <<>>
    ELSE IF Len(texts) = 1 THEN texts[1]
    ELSE texts[1] \o <<Comma>> \o Join(Tail(texts))

\* cols.map(c => csvEscape(values[c])).join(',') + '\n'
Line(values) == Join([k \in DOMAIN values |-> csvEscape(values[k])]) \o <<LF>>

\* what res.write is given: the mark, the header, the line of a detection
BomChunk == [kind |-> "bom", text |-> <<BOM>>]
HeaderChunk == [kind |-> "header", text |-> Join([k \in DOMAIN cols |-> <<cols[k]>>]) \o <<LF>>]
RowChunk(d) ==
    [kind |-> "row", text |-> Line([k \in DOMAIN cols |-> Field(d, cols[k])])]

\* (mutant) the rows of the store are returned, whatever they are
JsonRowsStoreOnly(read, dets, limit) == read

\* if (!rows.length) rows = detections.slice(-limit)
JsonRows(read, dets, limit) ==
    IF read # <<>> THEN read ELSE MemoryRows(dets, limit)

\* the request as the handler finds it; read is what the store delivered
\* (history), failedEarly whether the store failed before any row was written,
\* failAt the row of the in-memory path whose line throws (0: none), failed
\* the rows whose line threw (history), ends the calls of res.end() so far
\* (res.json included)
NewExport(format, raw) ==
    [phase |-> "streaming", format |-> format, limit |-> raw,
     source |-> "memory", storeRead |-> "none", read |-> <<>>,
     failedEarly |-> FALSE, out |-> <<>>, rows |-> <<>>, pending |-> <<>>,
     cursorOpen |-> FALSE, aborted |-> FALSE, ended |-> FALSE,
     endedBy |-> "none", fault |-> FALSE, failAt |-> 0, failed |-> <<>>,
     ends |-> 0]

\* format=json.  The store is read when connected; the read succeeds or
\* throws; res.json sends the rows.
ExportJson(raw, readOk) ==
    LET limit == EffectiveLimit(raw)
    IN  /\ exp.phase # "streaming"
        /\ readOk \/ mongoDb
        /\ \E read \in (IF mongoDb /\ readOk THEN StoreFind(store, limit)
                        ELSE {<<>>}) :
              exp' = [NewExport("json", raw) EXCEPT
                        !.phase = "done",
                        !.storeRead = IF ~mongoDb THEN "none"
                                      ELSE IF readOk THEN "ok" ELSE "failed",
                        !.read = read,
                        !.source = IF read # <<>> THEN "store" ELSE "memory",
                        !.rows = JsonRows(read, detections, limit),
                        !.ended = TRUE,
                        !.ends = 1,
                        !.endedBy = "handler"]
        /\ UNCHANGED <<plasmaBuffer, magBuffer, detections, mongoDb, calc, pc,
                       response, store, storeFails, csv, pairing, created, dirty,
                       rescan, newDetections, scanTrace, allAscending, polls,
                       afterFailure, refDetections>>

\* (mutant) the fallback starts the file again
FallbackWriteFromTop(e, dets) ==
    LET rows == MemoryRows(dets, EffectiveLimit(e.limit))
    IN  [e EXCEPT !.phase = "done",
                  !.source = "memory",
                  !.rows = rows,
                  !.out = e.out \o <<BomChunk, HeaderChunk>>
                          \o [k \in DOMAIN rows |-> RowChunk(rows[k])],
                  !.ended = TRUE,
                  !.ends = e.ends + 1,
                  !.endedBy = "handler"]

\* the in-memory path: one line per row of detections.slice(-limit), then
\* res.end(); one try holds the whole loop, so a line that throws leaves the
\* loop and the catch ends the response
FallbackWrite(e, dets) ==
    LET rows == MemoryRows(dets, EffectiveLimit(e.limit))
        done == IF e.failAt \in DOMAIN rows
                THEN SubSeq(rows, 1, e.failAt - 1) ELSE rows
    IN  [e EXCEPT !.phase = "done",
                  !.source = "memory",
                  !.rows = done,
                  !.failed = IF e.failAt \in DOMAIN rows
                             THEN <<rows[e.failAt]>> ELSE <<>>,
                  !.out = e.out \o [k \in DOMAIN done |-> RowChunk(done[k])],
                  !.ended = TRUE,
                  !.ends = e.ends + 1,
                  !.endedBy = "handler"]

\* the row of the in-memory path whose line throws: none, or the first
FailAts == {0, 1}

\* format=csv.  The mark and the header are written; with a store the cursor
\* is opened and its stream's handlers are registered, unless that throws
\* (openOk = FALSE); without one, or after the throw, the in-memory path runs.
ExportCsv(raw, openOk, failAt) ==
    LET started == [NewExport("csv", raw) EXCEPT
                      !.out = <<BomChunk, HeaderChunk>>]
    IN  /\ exp.phase # "streaming"
        /\ openOk \/ mongoDb
        /\ (mongoDb /\ openOk) => failAt = 0
        /\ IF mongoDb /\ openOk
           THEN \E found \in StoreFind(store, EffectiveLimit(raw)) :
                    exp' = [started EXCEPT !.source = "store",
                                           !.storeRead = "ok",
                                           !.read = found,
                                           !.pending = found,
                                           !.cursorOpen = TRUE]
           ELSE exp' = FallbackWrite(
                         [started EXCEPT
                            !.failAt = failAt,
                            !.storeRead = IF mongoDb THEN "failed" ELSE "none",
                            !.failedEarly = mongoDb],
                         detections)
        /\ UNCHANGED <<plasmaBuffer, magBuffer, detections, mongoDb, calc, pc,
                       response, store, storeFails, csv, pairing, created, dirty,
                       rescan, newDetections, scanTrace, allAscending, polls,
                       afterFailure, refDetections>>

\* .on('data', doc => { try { line = ...; res.write(line) } catch (e) {} }):
\* a line that throws is swallowed
OnData(e, writeThrows) ==
    [e EXCEPT !.pending = Tail(e.pending),
              !.failed = IF writeThrows THEN Append(e.failed, Head(e.pending))
                         ELSE e.failed,
              !.out = IF writeThrows THEN e.out
                      ELSE Append(e.out, RowChunk(Head(e.pending))),
              !.rows = IF writeThrows THEN e.rows
                       ELSE Append(e.rows, Head(e.pending))]

\* (mutant) the end handler ends the response whatever happened
OnEndAlways(e) ==
    [e EXCEPT !.phase = "done", !.ended = TRUE, !.ends = e.ends + 1,
              !.endedBy = "end"]

\* .on('end', () => { if (!aborted) res.end(); })
OnEnd(e) ==
    IF e.aborted THEN [e EXCEPT !.phase = "done"]
    ELSE [e EXCEPT !.phase = "done", !.ended = TRUE, !.ends = e.ends + 1,
                   !.endedBy = "end"]

\* (mutant) only a response whose headers are unsent is ended
OnErrorUnsentOnly(e) ==
    [e EXCEPT !.phase = "done",
              !.storeRead = "failed",
              !.failedEarly = (e.rows = <<>>)]

\* .on('error', ...): the mark has been written, so headersSent holds and
\* the response is ended as it stands
OnError(e) ==
    [e EXCEPT !.phase = "done",
              !.storeRead = "failed",
              !.failedEarly = (e.rows = <<>>),
              !.ended = TRUE,
              !.ends = e.ends + 1,
              !.endedBy = IF e.ended THEN e.endedBy ELSE "error"]

\* req.on('close', () => { aborted = true; try { cursor.close() } catch (e) {} })
OnClose(e) == [e EXCEPT !.aborted = TRUE, !.cursorOpen = FALSE]

\* the stream delivers the next document; building or writing its line may
\* throw.  The data listener does not look at aborted, and cursor.close() is
\* not awaited by the close listener, so a document the stream already holds
\* can still be delivered after it.
StreamData(writeThrows) ==
    /\ exp.phase = "streaming"
    /\ exp.pending # <<>>
    /\ exp' = OnData(exp, writeThrows)
    /\ UNCHANGED <<plasmaBuffer, magBuffer, detections, mongoDb, calc, pc,
                   response, store, storeFails, csv, pairing, created, dirty,
                   rescan, newDetections, scanTrace, allAscending, polls,
                   afterFailure, refDetections>>

\* the stream ends: the cursor is exhausted or has been closed
StreamEnd ==
    /\ exp.phase = "streaming"
    /\ exp.pending = <<>> \/ ~exp.cursorOpen
    /\ exp' = OnEnd(exp)
    /\ UNCHANGED <<plasmaBuffer, magBuffer, detections, mongoDb, calc, pc,
                   response, store, storeFails, csv, pairing, created, dirty,
                   rescan, newDetections, scanTrace, allAscending, polls,
                   afterFailure, refDetections>>

\* the stream fails (the store became unreachable, the cursor was killed)
StreamError ==
    /\ exp.phase = "streaming"
    /\ exp' = OnError(exp)
    /\ UNCHANGED <<plasmaBuffer, magBuffer, detections, mongoDb, calc, pc,
                   response, store, storeFails, csv, pairing, created, dirty,
                   rescan, newDetections, scanTrace, allAscending, polls,
                   afterFailure, refDetections>>

\* the client disconnects while the export streams
ClientClose ==
    /\ exp.phase = "streaming"
    /\ ~exp.aborted
    /\ exp' = OnClose(exp)
    /\ UNCHANGED <<plasmaBuffer, magBuffer, detections, mongoDb, calc, pc,
                   response, store, storeFails, csv, pairing, created, dirty,
                   rescan, newDetections, scanTrace, allAscending, polls,
                   afterFailure, refDetections>>

----------------------------------------------------------------------------
(* SpecExport: GET /export on the log and the store left by two polls, each *)
(* followed by its rule scan; the store absent, healthy, or failing         *)

InitExport ==
    \E b1 \in Batches : \E b2 \in Batches : \E m \in BOOLEAN : \E f \in BOOLEAN :
        LET bufs1 == AppendRows([plasma |-> <<>>, mag |-> <<>>], b1[1], b1[2], 1)
            r1 == RunDetection(bufs1.plasma, bufs1.mag, <<>>)
            bufs2 == AppendRows(bufs1, b2[1], b2[2], 1)
            r2 == RunDetection(bufs2.plasma, bufs2.mag, r1.detections)
        IN  /\ f => m
            /\ plasmaBuffer = bufs2.plasma
            /\ magBuffer = bufs2.mag
            /\ detections = r2.detections
            /\ mongoDb = m
            /\ calc = NoCalc
            /\ pc = [c \in Cycles |-> "idle"]
            /\ response = NoResponse
            /\ store = IF m /\ ~f THEN Mirror(Mirror(<<>>, r1.new, 1), r2.new, 1)
                       ELSE <<>>
            /\ storeFails = f
            /\ exp = NoExport
            /\ csv = NoCsv
            /\ pairing = LastN(PairsOf(b1[1], b1[2]) \o PairsOf(b2[1], b2[2]),
                               BUFFER_MAX)
            /\ created = LastN(r1.new \o r2.new, DETECTIONS_KEEP + 1)
            /\ dirty = FALSE
            /\ rescan = (b2[1] = <<>>)
            /\ newDetections = r2.new
            /\ scanTrace = r2.trace
            /\ allAscending = (Ascending(b1[1]) /\ Ascending(b2[1]))
            /\ polls = 2
            /\ afterFailure = FALSE
            /\ refDetections = r2.detections

NextExport ==
    \/ \E raw \in ExportLimits : \E readOk \in BOOLEAN : ExportJson(raw, readOk)
    \/ \E raw \in ExportLimits : \E openOk \in BOOLEAN : \E failAt \in FailAts :
          ExportCsv(raw, openOk, failAt)
    \/ \E writeThrows \in BOOLEAN : StreamData(writeThrows)
    \/ StreamEnd
    \/ StreamError
    \/ ClientClose

SpecExport == InitExport /\ [][NextExport]_vars

\* the stream of an open cursor goes on: a document, the end, or an error
StreamEvent ==
    \/ \E writeThrows \in BOOLEAN : StreamData(writeThrows)
    \/ StreamEnd
    \/ StreamError

\* a started stream is driven by the store's driver until it ends or fails
SpecExportLive == SpecExport /\ WF_exp(StreamEvent)

----------------------------------------------------------------------------
(* SpecFrame: every request handler, in any order, on full buffers and a   *)
(* non-empty log left by two polls                                         *)

\* (mutant) a GET /events that hands the log over and starts a new one
EventsDraining ==
    /\ response' = [op |-> "events", detections |-> detections]
    /\ detections' = <<>>
    /\ UNCHANGED <<plasmaBuffer, magBuffer, mongoDb, calc, pc, pairing,
                   created, dirty, rescan, newDetections, scanTrace,
                   allAscending, polls>>
    /\ UNCHANGED <<store, storeFails, exp, csv, afterFailure, refDetections>>

\* GET /events: the log as it is
Events ==
    /\ response' = [op |-> "events", detections |-> detections]
    /\ UNCHANGED <<plasmaBuffer, magBuffer, detections, mongoDb, calc, pc, pairing,
                   created, dirty, rescan, newDetections, scanTrace,
                   allAscending, polls>>
    /\ UNCHANGED <<store, storeFails, exp, csv, afterFailure, refDetections>>

InitFrame ==
    /\ InitExport
    /\ Len(plasmaBuffer) = BUFFER_MAX
    /\ detections # <<>>

\* the request parameters tried: missing, out of range, and a small count;
\* no line of an export throws
FrameN == {Null, -1, 2}
FrameLimits == {Null, 1}

NextFrame ==
    \/ \E n \in FrameN : Latest(n)
    \/ Events
    \/ \E n \in FrameN : Predict(n)
    \/ Detect
    \/ \E raw \in FrameLimits : \E readOk \in BOOLEAN : ExportJson(raw, readOk)
    \/ \E raw \in FrameLimits : \E openOk \in BOOLEAN : ExportCsv(raw, openOk, 0)
    \/ StreamData(FALSE)
    \/ StreamEnd
    \/ StreamError
    \/ ClientClose

SpecFrame == InitFrame /\ [][NextFrame]_vars

----------------------------------------------------------------------------
(* SpecCsv: a row of two values written as a CSV line and read back *)

MaxFieldLen == 2           \* characters of a string value

\* the characters of string values: a plain one and the four csvEscape tests
CsvChars == {"a", Comma, Quote, LF, CR}

\* the values a detection field can hold: null, numbers, strings (timeISO,
\* and the id made of it, are whatever text the upstream file carries)
CsvValues ==
    {JsNull} \cup {JsNum(n) : n \in {0, -12, 4505}}
             \cup {JsStr(s) : s \in SeqsUpTo(CsvChars, MaxFieldLen)}

\* reading one record back: a field that starts with a quote runs to its
\* closing quote, a doubled quote inside it standing for one quote; fields
\* are separated by commas; a line feed outside quotes ends the record
RECURSIVE ParseFrom(_, _, _, _, _)
ParseFrom(text, i, inQuotes, cur, fields) ==
    IF i > Len(text) THEN Append(fields, cur)
    ELSE IF inQuotes
    THEN IF text[i] = Quote
         THEN IF i < Len(text) /\ text[i + 1] = Quote
              THEN ParseFrom(text, i + 2, TRUE, Append(cur, Quote), fields)
              ELSE ParseFrom(text, i + 1, FALSE, cur, fields)
         ELSE ParseFrom(text, i + 1, TRUE, Append(cur, text[i]), fields)
    ELSE IF text[i] = Quote /\ cur = <<>>
    THEN ParseFrom(text, i + 1, TRUE, cur, fields)
    ELSE IF text[i] = Comma
    THEN ParseFrom(text, i + 1, FALSE, <<>>, Append(fields, cur))
    ELSE IF text[i] = LF
    THEN Append(fields, cur)
    ELSE ParseFrom(text, i + 1, FALSE, Append(cur, text[i]), fields)

ParseLine(text) == ParseFrom(text, 1, FALSE, <<>>, <<>>)

InitCsv ==
    /\ plasmaBuffer = <<>>
    /\ magBuffer = <<>>
    /\ detections = <<>>
    /\ mongoDb = FALSE
    /\ calc = NoCalc
    /\ pc = [c \in Cycles |-> "idle"]
    /\ response = NoResponse
    /\ store = <<>>
    /\ storeFails = FALSE
    /\ exp = NoExport
    /\ csv \in { [phase |-> "values", values |-> vs, line |-> <<>>, fields |-> <<>>] :
                 vs \in CsvValues \X CsvValues }
    /\ pairing = <<>>
    /\ created = <<>>
    /\ dirty = TRUE
    /\ rescan = FALSE
    /\ newDetections = <<>>
    /\ scanTrace = <<>>
    /\ allAscending = TRUE
    /\ polls = 0
    /\ afterFailure = FALSE
    /\ refDetections = <<>>

\* the export writes the line of the row
WriteLine ==
    /\ csv.phase = "values"
    /\ csv' = [csv EXCEPT !.phase = "written", !.line = Line(csv.values)]
    /\ UNCHANGED <<plasmaBuffer, magBuffer, detections, mongoDb, calc, pc,
                   response, store, storeFails, exp, pairing, created, dirty,
                   rescan, newDetections, scanTrace, allAscending, polls,
                   afterFailure, refDetections>>

\* a reader parses the line
ReadLine ==
    /\ csv.phase = "written"
    /\ csv' = [csv EXCEPT !.phase = "parsed", !.fields = ParseLine(csv.line)]
    /\ UNCHANGED <<plasmaBuffer, magBuffer, detections, mongoDb, calc, pc,
                   response, store, storeFails, exp, pairing, created, dirty,
                   rescan, newDetections, scanTrace, allAscending, polls,
                   afterFailure, refDetections>>

NextCsv == WriteLine \/ ReadLine

SpecCsv == InitCsv /\ [][NextCsv]_vars

----------------------------------------------------------------------------
(* Properties *)

Sorted(pb) == \A i \in 1..(Len(pb) - 1) : pb[i].timeISO <= pb[i + 1].timeISO

\* C1: after any sequence of ingestion cycles the plasma and field buffers
\* have equal length, the length never exceeds BUFFER_MAX, and index i of
\* both buffers holds the two halves of one appended pair, also after
\* evictions.
C1_BufferBoundAligned ==
    /\ Len(plasmaBuffer) = Len(magBuffer)
    /\ Len(plasmaBuffer) <= BUFFER_MAX
    /\ Len(pairing) = Len(plasmaBuffer)
    /\ \A i \in DOMAIN plasmaBuffer :
           i \in DOMAIN magBuffer /\ i \in DOMAIN pairing
               => <<plasmaBuffer[i], magBuffer[i]>> = pairing[i]

\* a batch longer than the buffer was appended and its oldest row evicted
C1_Witness ==
    /\ plasmaBuffer = Shift(LongPlasma)
    /\ magBuffer = Shift(LongMag)

\* C2 (as claimed): a rule scan that runs on a buffer unchanged since the
\* previous scan returns no new detection.
C2_RescanReturnsNothing == rescan => newDetections = <<>>

\* C3: the detection log never holds more than DETECTIONS_KEEP entries, and
\* once more than DETECTIONS_KEEP detections have been created its length is
\* exactly DETECTIONS_KEEP and it is the most recently created ones, in
\* creation order.
C3_LogCap ==
    /\ Len(detections) <= DETECTIONS_KEEP
    /\ Len(created) > DETECTIONS_KEEP =>
           /\ Len(detections) = DETECTIONS_KEEP
           /\ \A k \in 1..DETECTIONS_KEEP :
                  k \in DOMAIN detections =>
                      detections[k] = created[Len(created) - DETECTIONS_KEEP + k]

\* more detections were created than the log keeps
C3_Witness ==
    /\ Len(created) > DETECTIONS_KEEP
    /\ Len(detections) = DETECTIONS_KEEP

\* C4: in every reachable state no two entries of the detection log have the
\* same id, under any interleaving of ingestion cycles and detect() rescans.
C4_UniqueIds ==
    \A i \in DOMAIN detections : \A j \in DOMAIN detections :
        i # j => detections[i].id # detections[j].id

\* the scanned buffer holds two different candidate samples with one id, and
\* the log holds that id
C4_Witness ==
    \E i \in DOMAIN scanTrace : \E j \in DOMAIN scanTrace :
        /\ i \in DOMAIN plasmaBuffer /\ j \in DOMAIN plasmaBuffer
        /\ plasmaBuffer[i].speed # plasmaBuffer[j].speed
        /\ scanTrace[i].isCME /\ scanTrace[j].isCME
        /\ DetectionId(plasmaBuffer[i].timeISO, plasmaBuffer[i].speed)
               = DetectionId(plasmaBuffer[j].timeISO, plasmaBuffer[j].speed)
        /\ HasId(detections,
                 DetectionId(plasmaBuffer[i].timeISO, plasmaBuffer[i].speed))

\* the indices the last scan looked at, while the buffer is as it scanned it
ScannedIdx == IF dirty THEN {} ELSE DOMAIN scanTrace \cap DOMAIN plasmaBuffer

\* C5: in a rule scan an index whose speed, density and bz are all non-null
\* is a candidate iff (shock and (highSpeed or highDensity)) or (highSpeed
\* and highDensity and southBz), with highSpeed = speed > 500, highDensity =
\* density > 10, southBz = bz < -10, shock = deltaV non-null and > 100; an
\* index with a null among the three is no candidate.
C5_RuleFormula ==
    \A i \in ScannedIdx :
        LET speed   == plasmaBuffer[i].speed
            density == plasmaBuffer[i].density
            bz      == magBuffer[i].bz
            deltaV  == scanTrace[i].deltaV
            highSpeed   == speed > Kms(500)
            highDensity == density > 10
            southBz     == bz < -10
            shock       == deltaV # Null /\ deltaV > Kms(100)
        IN  IF speed # Null /\ density # Null /\ bz # Null
            THEN /\ ~scanTrace[i].skipped
                 /\ scanTrace[i].isCME <=>
                        \/ shock /\ (highSpeed \/ highDensity)
                        \/ highSpeed /\ highDensity /\ southBz
            ELSE scanTrace[i].skipped /\ ~scanTrace[i].isCME

\* speed 600, density 12, bz -12 with no look-back sample is a candidate
C5_Witness ==
    \E i \in ScannedIdx :
        /\ plasmaBuffer[i].speed = Kms(600)
        /\ plasmaBuffer[i].density = 12
        /\ magBuffer[i].bz = -12
        /\ scanTrace[i].deltaV = Null
        /\ scanTrace[i].isCME

\* the sample of C6: speed 450, density 3, bz -2, DELTA_WINDOW positions
\* after a sample of speed 300, hence with deltaV 150
C6_Case(i) ==
    /\ i - DELTA_WINDOW \in DOMAIN plasmaBuffer
    /\ plasmaBuffer[i - DELTA_WINDOW].speed = Kms(300)
    /\ plasmaBuffer[i].speed = Kms(450)
    /\ plasmaBuffer[i].density = 3
    /\ magBuffer[i].bz = -2
    /\ scanTrace[i].deltaV = Kms(150)

C6_Id(i) == DetectionId(plasmaBuffer[i].timeISO, plasmaBuffer[i].speed)

\* C6 (as claimed): that sample fires the rule and the scan creates a
\* detection for it.
C6_JumpFires ==
    \A i \in ScannedIdx :
        C6_Case(i) => scanTrace[i].isCME /\ HasId(detections, C6_Id(i))

\* C6 (amended): that sample does not fire the rule (shock holds, but
\* neither highSpeed nor highDensity does) and no detection is created for it.
C6_JumpDoesNotFire ==
    \A i \in ScannedIdx :
        C6_Case(i) =>
            /\ ~scanTrace[i].isCME
            /\ ~HasId(detections, C6_Id(i))
            /\ ~HasId(newDetections, C6_Id(i))

C6_Witness == \E i \in ScannedIdx : C6_Case(i)

\* C7 (as claimed): the deltaV used at index i is speed[i] - speed[i-W] when
\* index i-W exists and its speed is non-null, and null otherwise.
C7_DeltaVNullLookback ==
    \A i \in ScannedIdx :
        ~scanTrace[i].skipped =>
            scanTrace[i].deltaV =
                IF /\ i - DELTA_WINDOW \in DOMAIN plasmaBuffer
                   /\ plasmaBuffer[i - DELTA_WINDOW].speed # Null
                THEN plasmaBuffer[i].speed - plasmaBuffer[i - DELTA_WINDOW].speed
                ELSE Null

\* C8 (as claimed): an ingestion cycle whose plasma row list or field row
\* list is empty leaves both buffers and the detection log unchanged.
C8_EmptyListNoEffect ==
    [][\A c \in Cycles : \A b \in Batches :
           (PollDeliver(c, b[1], b[2]) /\ (b[1] = <<>> \/ b[2] = <<>>))
               => UNCHANGED <<plasmaBuffer, magBuffer, detections>>]_vars

\* C9 (as claimed): when every delivered batch is in ascending time order,
\* the timestamps in the buffer are non-decreasing by index.
C9_TimeOrdered == allAscending => Sorted(plasmaBuffer)

\* C10 (as claimed): latest(n) and predict(n) use the last min(n, length)
\* aligned entries of both buffers for a number n > 0, and nothing for a
\* number n <= 0.
C10_TailSemantics ==
    (response.op \in {"latest", "predict"} /\ response.n # Null) =>
        LET want == IF response.n > 0
                    THEN Min(response.n, Len(plasmaBuffer))
                    ELSE 0
        IN  /\ response.plasma = LastN(plasmaBuffer, want)
            /\ response.mag = LastN(magBuffer, want)

\* C12: a cycle that fails on its upstream response (rejected or timed-out
\* fetch, a body that is not an array, a null row) leaves both buffers and
\* the detection log exactly as they were, and the invocation returns
C12_FailedCycleLeavesState ==
    [][\A c \in Cycles : \A resp \in FailingResponses :
          PollFail(c, resp) =>
              /\ plasmaBuffer' = plasmaBuffer
              /\ magBuffer' = magBuffer
              /\ detections' = detections
              /\ pc'[c] = "idle"]_vars

\* a cycle has just failed on a server holding samples and detections
C12_Witness ==
    /\ afterFailure
    /\ plasmaBuffer # <<>>
    /\ detections # <<>>

\* C13: the buffers and the detection log do not depend on the store: once
\* no cycle is waiting for its bulk writes, the log equals the log of a
\* server without a store that was given the same deliveries and detect()
\* calls in the same order (the buffers are appended to in the same way with
\* and without a store, so they agree by construction of the append loop)
C13_StoreIndependent ==
    (\A c \in Cycles : pc[c] # "persisting") => detections = refDetections

\* the field rows paired with the plasma rows of a batch
MagOf(b) == [k \in DOMAIN b[1] |-> PairsOf(b[1], b[2])[k][2]]

\* C14: no state shows a half-appended batch: every step either leaves both
\* buffers as they are or appends all rows of one delivered batch, in order,
\* behind the rows already there (oldest rows evicted beyond BUFFER_MAX), so
\* rows of two batches never interleave, with two cycles in flight as well
C14_WholeBatches ==
    [][\/ plasmaBuffer' = plasmaBuffer /\ magBuffer' = magBuffer
       \/ \E b \in Batches :
             /\ plasmaBuffer' = LastN(plasmaBuffer \o b[1], BUFFER_MAX)
             /\ magBuffer' = LastN(magBuffer \o MagOf(b), BUFFER_MAX)]_vars

\* two cycles are in flight, both past their append, and the buffer holds a
\* two-row batch followed by the batch of the other cycle
C14_Witness ==
    /\ \A c \in Cycles : pc[c] = "persisting"
    /\ \E b1 \in Batches : \E b2 \in Batches :
          /\ Len(b1[1]) = 2
          /\ Len(b2[1]) = 1
          /\ plasmaBuffer = b1[1] \o b2[1]
          /\ magBuffer = MagOf(b1) \o MagOf(b2)

C15_CsvFallback ==
    (/\ exp.phase = "done"
     /\ exp.format = "csv"
     /\ ~exp.aborted
     /\ exp.failed = <<>>
     /\ ~mongoDb \/ exp.failedEarly) =>
        exp.rows = MemoryRows(detections, EffectiveLimit(exp.limit))

C18_SameRows ==
    (mongoDb /\ ~storeFails) =>
        \A raw \in {r \in ExportLimits : EffectiveLimit(r) > 0} :
            \A read \in StoreFind(store, EffectiveLimit(raw)) :
                JsonRows(read, detections, EffectiveLimit(raw))
                    = JsonRows(<<>>, detections, EffectiveLimit(raw))

\* C20: in every CSV export the byte-order mark is the first thing written
\* and the header the second, neither is written again, and everything after
\* the header is a detection row
C20_BomHeaderOnce ==
    (exp.phase # "none" /\ exp.format = "csv") =>
        /\ Len(exp.out) >= 2
        /\ exp.out[1] = BomChunk
        /\ exp.out[2] = HeaderChunk
        /\ \A k \in 3..Len(exp.out) : exp.out[k].kind = "row"

\* opening the cursor threw on a connected store and the in-memory path
\* wrote its rows behind the header
C20_Witness ==
    /\ exp.phase = "done"
    /\ exp.format = "csv"
    /\ mongoDb
    /\ exp.source = "memory"
    /\ Len(exp.out) > 2

\* the text a field stands for: nothing for null, String(v) otherwise
StringForm(v) == IF v.t = "null" THEN <<>> ELSE String(v)

\* C19: reading a written CSV line back gives, field by field, the string
\* form of the value written (the empty text for null), whether or not the
\* value holds commas, double quotes, line feeds or carriage returns
C19_RoundTrip ==
    csv.phase = "parsed" =>
        /\ Len(csv.fields) = Len(csv.values)
        /\ \A k \in DOMAIN csv.values : csv.fields[k] = StringForm(csv.values[k])

\* a row of a string made of a quote and a comma and of a null was written
\* and read back
C19_Witness ==
    /\ csv.phase = "parsed"
    /\ csv.values[1] = JsStr(<<Quote, Comma>>)
    /\ csv.values[2] = JsNull
    /\ csv.line = <<Quote, Quote, Quote, Comma, Quote, Comma, LF>>

\* C21: the score does not decrease when the speed, the density, the
\* southward field -bz or deltaV is raised alone, the other three arguments
\* staying as they are (rounding to 2 decimals included)
C21_ScoreMonotone ==
    (calc.op = "score" /\ calc.done) =>
        /\ \A v \in ScoreSpeeds : v >= calc.speed =>
              computeScoreAndSeverity(v, calc.density, calc.bz, calc.deltaV).score
                  >= calc.out.score
        /\ \A d \in ScoreDensities : d >= calc.density =>
              computeScoreAndSeverity(calc.speed, d, calc.bz, calc.deltaV).score
                  >= calc.out.score
        /\ \A b \in ScoreBzs : 0 - b >= 0 - calc.bz =>
              computeScoreAndSeverity(calc.speed, calc.density, b, calc.deltaV).score
                  >= calc.out.score
        /\ \A dv \in ScoreDeltaVs \ {Null} : (calc.deltaV # Null /\ dv >= calc.deltaV) =>
              computeScoreAndSeverity(calc.speed, calc.density, calc.bz, dv).score
                  >= calc.out.score

\* a sample inside all four linear maps was scored, between 0 and 1
C21_Witness ==
    /\ calc.op = "score"
    /\ calc.done
    /\ calc.speed = Kms(1200)
    /\ calc.density = 26
    /\ calc.bz = -12
    /\ calc.deltaV = Kms(150)
    /\ calc.out.score = 40

\* C24: the severity label and class of a detection follow from its stored,
\* rounded score: Strong iff score > 0.75, else Moderate iff > 0.5, else Mild
\* iff > 0.25, else Nominal; crit iff score > 0.6, else warn iff > 0.3, else
\* info
C24_SeverityFromStoredScore ==
    (/\ calc.op = "score"
     /\ calc.done
     /\ IsCME(calc.speed, calc.density, calc.bz, calc.deltaV)) =>
        /\ calc.out.severity_label = SeverityLabel(calc.out.score, 1)
        /\ calc.out.severity_class = SeverityClass(calc.out.score, 1)

RECURSIVE Pow(_, _)
Pow(b, e) == IF e = 0 THEN 1 ELSE b * Pow(b, e - 1)

\* the weighted sum of arr[k..n] in the closed form of the moving average,
\* over the denominator ALPHA_DEN ^ (n - 1)
RECURSIVE EmaTail(_, _)
EmaTail(arr, k) ==
    IF k > Len(arr) THEN 0
    ELSE ALPHA_NUM * Pow(ALPHA_DEN - ALPHA_NUM, Len(arr) - k)
                   * Pow(ALPHA_DEN, k - 2) * arr[k]
         + EmaTail(arr, k + 1)

EmaRounded(arr) ==
    RoundDiv(Pow(ALPHA_DEN - ALPHA_NUM, Len(arr) - 1) * arr[1] + EmaTail(arr, 2),
             Pow(ALPHA_DEN, Len(arr) - 1))

\* C22: the forecaster returns the empty sequence for an empty input, and for a
\* non-empty input exactly FORECAST_STEPS values, all equal to the rounded
\* final value of the exponential moving average seeded with the first element
C22_ForecastConstant ==
    (calc.op = "forecast" /\ calc.done) =>
        IF Len(calc.arr) = 0
        THEN calc.out = <<>>
        ELSE /\ Len(calc.out) = FORECAST_STEPS
             /\ \A k \in 1..Len(calc.out) : calc.out[k] = EmaRounded(calc.arr)

\* 0.25*702 + 0.75*(0.25*3 + 0.75*450) = 429.1875
C22_Witness ==
    /\ calc.op = "forecast"
    /\ calc.done
    /\ calc.arr = <<450, 3, 702>>
    /\ calc.out = <<429, 429, 429, 429, 429, 429>>

\* C23: a failed cycle never stops the periodic trigger (after a failure the
\* next invocation of pollNOAA can start), a delivered batch is scanned in the
\* same step when there is no store, and a cycle awaiting the store's bulk
\* writes eventually returns with the rule scan run on the appended batch
C23_TriggerSurvives ==
    /\ [](afterFailure /\ polls < MaxPolls =>
              \E c \in Cycles : ENABLED PollStart(c))
    /\ [][\A c \in Cycles :
              (pc[c] = "fetching" /\ pc'[c] = "idle" /\ ~afterFailure') =>
                  ~dirty']_vars
    /\ \A c \in Cycles :
           (pc[c] = "persisting") ~> (pc[c] = "idle" /\ ~dirty)

\* a cycle has failed, and a delivered batch went through the store's writes
\* and was scanned
C23_Witness ==
    /\ mongoDb
    /\ afterFailure
    /\ ~dirty
    /\ polls = 2
    /\ Len(plasmaBuffer) > 0
    /\ \A c \in Cycles : pc[c] = "idle"

\* the number of non-null values of a metric in the window [max(0,i-WIN), i)
WindowCount(arr, field, idx) ==
    Cardinality({ i \in Max(0, idx - WIN) .. (idx - 1) :
                      arr[i + 1][field] # Null })

\* C25: a metric is triggered only when its trailing window, which excludes
\* the current index, holds at least MIN_VALS non-null values and the current
\* value is non-null; isAnomaly holds iff speed, density or bz is triggered
C25_TriggerNeedsWindow ==
    (calc.op = "anomaly" /\ calc.done) =>
        LET Needs(flag, arr, field) ==
                flag => /\ calc.idx >= 0
                        /\ WindowCount(arr, field, calc.idx) >= MIN_VALS
                        /\ arr[calc.idx + 1][field] # Null
        IN  /\ Needs(calc.out.speed, calc.plasma, "speed")
            /\ Needs(calc.out.density, calc.plasma, "density")
            /\ Needs(calc.out.bz, calc.mag, "bz")
            /\ calc.out.isAnomaly <=>
                   (calc.out.speed \/ calc.out.density \/ calc.out.bz)

\* a speed jump after a window holding a null and two calm values: speed alone
\* is triggered
C25_Witness ==
    /\ calc.op = "anomaly"
    /\ calc.done
    /\ calc.idx = 3
    /\ calc.plasma[1].speed = Null
    /\ calc.out.speed
    /\ ~calc.out.density
    /\ ~calc.out.bz
    /\ calc.out.isAnomaly

\* the detection the rule scan creates at index i of the buffers pb, mb, if
\* the rule fires there
FiresAs(pb, mb, i, d) ==
    LET p == pb[i]
        m == mb[i]
        deltaV == DeltaV(pb, i, p.speed)
    IN  /\ p.speed # Null /\ p.density # Null /\ m.bz # Null
        /\ IsCME(p.speed, p.density, m.bz, deltaV)
        /\ d = MakeDetection(p, m.bz, deltaV)

\* C26: an entry enters the detection log only in a rule scan, as the detection
\* of a buffer index where the rule fires, and an entry whose id is in the log
\* before and after a step has all its field values unchanged by the step
C26_NeverMutated ==
    [][/\ \A j \in DOMAIN detections : \A k \in DOMAIN detections' :
              detections[j].id = detections'[k].id =>
                  detections[j] = detections'[k]
       /\ \A k \in DOMAIN detections' :
              ~HasId(detections, detections'[k].id) =>
                  /\ \E n \in DOMAIN newDetections' :
                         newDetections'[n] = detections'[k]
                  /\ \E i \in DOMAIN plasmaBuffer' :
                         FiresAs(plasmaBuffer', magBuffer', i, detections'[k])
      ]_vars

\* the last scan added one detection to a log that held another one, which
\* stayed
C26_Witness ==
    /\ Len(detections) >= 2
    /\ newDetections = <<detections[Len(detections)]>>
    /\ polls >= 2

\* C27: a step that answers latest, events or predict (response changes) or
\* that belongs to an export (exp changes) leaves both buffers and the
\* detection log unchanged, and every request step, detect included, leaves
\* both buffers unchanged
C27_QueriesReadOnly ==
    [][/\ (response' # response \/ exp' # exp) =>
              UNCHANGED <<plasmaBuffer, magBuffer, detections>>
       /\ UNCHANGED <<plasmaBuffer, magBuffer>>
      ]_vars

\* an export has been answered from the log, then the log was read by events,
\* on full buffers
C27_Witness ==
    /\ response.op = "events"
    /\ response.detections = detections
    /\ exp.phase = "done"
    /\ exp.source = "memory"
    /\ exp.rows # <<>>
    /\ Len(plasmaBuffer) = BUFFER_MAX

\* C28: eviction is first in, first out: every step keeps the newest entries
\* of both buffers in their order at the front, drops only oldest entries and
\* only when the buffer ends the step full, and the buffers then hold the
\* last min(total appended, BUFFER_MAX) appended pairs in append order
C28_FifoEviction ==
    [][\E k \in 0..Len(plasmaBuffer) :
           LET kept == Len(plasmaBuffer) - k
           IN  /\ kept <= Len(plasmaBuffer')
               /\ \A i \in 1..kept :
                      /\ plasmaBuffer'[i] = plasmaBuffer[k + i]
                      /\ magBuffer'[i] = magBuffer[k + i]
               /\ k > 0 => Len(plasmaBuffer') = BUFFER_MAX
               /\ Len(plasmaBuffer') = Len(pairing')
               /\ \A i \in (kept + 1)..Len(plasmaBuffer') :
                      <<plasmaBuffer'[i], magBuffer'[i]>> = pairing'[i]
      ]_vars

\* a one-row batch arrived at a full buffer: the oldest pair left, the two
\* newer ones moved up
C28_Witness ==
    /\ Len(plasmaBuffer) = BUFFER_MAX
    /\ polls >= 2
    /\ plasmaBuffer[1] = Jump
    /\ plasmaBuffer[BUFFER_MAX] = Quiet
    /\ magBuffer[BUFFER_MAX] = NullMag(1)

\* C29: no step makes a buffer shorter; a buffer grows only in the step of an
\* ingestion cycle that takes the upstream's response; a buffer of BUFFER_MAX
\* entries has BUFFER_MAX entries after every step
C29_LengthMonotone ==
    [][/\ Len(plasmaBuffer') >= Len(plasmaBuffer)
       /\ Len(magBuffer') >= Len(magBuffer)
       /\ (Len(plasmaBuffer') > Len(plasmaBuffer)
              \/ Len(magBuffer') > Len(magBuffer)) =>
              \E c \in Cycles : pc[c] = "fetching" /\ pc'[c] # "fetching"
       /\ Len(plasmaBuffer) = BUFFER_MAX => Len(plasmaBuffer') = BUFFER_MAX
       /\ Len(magBuffer) = BUFFER_MAX => Len(magBuffer') = BUFFER_MAX
      ]_vars

\* a one-row batch arrived at the buffer a longer batch had filled
C29_Witness ==
    /\ Len(plasmaBuffer) = BUFFER_MAX
    /\ Len(magBuffer) = BUFFER_MAX
    /\ plasmaBuffer[1] = LongPlasma[3]
    /\ plasmaBuffer[BUFFER_MAX] = Fast

\* C30: at every index the field entry has the timestamp of the plasma entry,
\* and every field entry a cycle puts into the buffer is a field row of that
\* cycle's response with the plasma row's time, or the null-valued row of
\* that time when the response has no field row for it
C30_SameTimestamp ==
    /\ [](\A i \in DOMAIN plasmaBuffer :
              /\ i \in DOMAIN magBuffer
              /\ magBuffer[i].timeISO = plasmaBuffer[i].timeISO)
    /\ [][\A c \in Cycles : \A b \in LiveBatches :
              PollDeliver(c, b[1], b[2]) =>
                  \A i \in DOMAIN magBuffer' :
                      LET t == plasmaBuffer'[i].timeISO
                          rows == { b[2][n] : n \in DOMAIN b[2] }
                      IN  \/ \E j \in DOMAIN magBuffer :
                                 /\ magBuffer[j] = magBuffer'[i]
                                 /\ plasmaBuffer[j] = plasmaBuffer'[i]
                          \/ /\ magBuffer'[i] \in rows
                             /\ magBuffer'[i].timeISO = t
                          \/ /\ magBuffer'[i] = NullMag(t)
                             /\ \A r \in rows : r.timeISO # t
         ]_vars

\* the buffer holds a plasma row paired with a delivered field row and one
\* paired with the null-valued row
C30_Witness ==
    \E i \in DOMAIN magBuffer : \E j \in DOMAIN magBuffer :
        /\ i \in DOMAIN plasmaBuffer /\ j \in DOMAIN plasmaBuffer
        /\ magBuffer[i] = NullMag(plasmaBuffer[i].timeISO)
        /\ magBuffer[j].bz # Null
        /\ magBuffer[j].timeISO = plasmaBuffer[j].timeISO

\* the rule on the values a log entry carries (its deltaV is in whole km/s)
EntryFires(d) ==
    IsCME(d.speed, d.density, d.bz,
          IF d.deltaV = Null THEN Null ELSE Kms(d.deltaV))

\* C31 (as claimed): every entry of the detection log has non-null speed,
\* density and bz and its speed, density, bz and deltaV satisfy the candidate
\* rule, and a scanned sample with a null among speed, density and bz has no
\* detection
C31_EntriesSatisfyRule ==
    /\ \A k \in DOMAIN detections :
           /\ detections[k].speed # Null
           /\ detections[k].density # Null
           /\ detections[k].bz # Null
           /\ EntryFires(detections[k])
    /\ \A i \in ScannedIdx :
           scanTrace[i].skipped =>
               \A k \in DOMAIN detections :
                   detections[k].timeISO # plasmaBuffer[i].timeISO

\* the rows a CSV export set out to write
ExportSource(e) ==
    IF e.source = "store" THEN e.read
    ELSE MemoryRows(detections, EffectiveLimit(e.limit))

\* C32 (as claimed): in a finished CSV export whose client stayed and whose
\* stream raised no error, every row but those whose line threw has been
\* written, in order, and the response has been ended, on the store's cursor
\* and on the in-memory path alike
C32_RowFailureSkipped ==
    (/\ exp.phase = "done"
     /\ exp.format = "csv"
     /\ ~exp.aborted
     /\ exp.endedBy # "error") =>
        LET source == ExportSource(exp)
            Written(r) == \A k \in DOMAIN exp.failed : exp.failed[k] # r
        IN  /\ exp.ended
            /\ exp.rows = SelectSeq(source, Written)

\* C33: latest and predict answer on every buffer, the empty one and one whose
\* newest sample has null fields included; on the empty buffer predict
\* returns empty forecasts, score 0 with label Nominal and class info, and an
\* anomaly result with nothing triggered
C33_PredictOnEmpty ==
    (response.op \in {"latest", "predict"}) =>
        /\ response.status = "ok"
        /\ (response.op = "predict" /\ plasmaBuffer = <<>>) =>
               /\ response.forecast = [speed |-> <<>>, bz |-> <<>>]
               /\ response.quick.score =
                      [score |-> 0, severity_label |-> "Nominal",
                       severity_class |-> "info"]
               /\ ~response.quick.anomaly.isAnomaly
               /\ response.quick.anomaly.triggers = <<>>

\* predict has answered on the empty buffer
C33_Witness ==
    /\ plasmaBuffer = <<>>
    /\ magBuffer = <<>>
    /\ response.op = "predict"
    /\ response.status = "ok"

\* predict has answered on a buffer whose newest sample has only null values
C33_NullNewest ==
    /\ Len(plasmaBuffer) > 1
    /\ AtLast(plasmaBuffer).speed = Null
    /\ AtLast(plasmaBuffer).density = Null
    /\ AtLast(magBuffer).bz = Null
    /\ response.op = "predict"
    /\ response.status = "ok"
    /\ response.forecast.speed # <<>>

\* rows were appended since the last rule scan, and a scan of the buffer as it
\* stands creates detections the log does not hold
Unscanned ==
    /\ dirty
    /\ RunDetection(plasmaBuffer, magBuffer, detections).new # <<>>

\* C34 (as claimed): whenever latest or predict answers, the detection log
\* reflects a completed rule scan of the buffer it reads: no request is
\* answered between the append of a batch and its rule scan
C34_ReadersSeeScannedBuffer ==
    [][response' # response => ~Unscanned]_vars

\* C35 (as claimed): GET /cme-detect answers { new: runDetection(), all:
\* detections }, all being read after the scan; every detection of new is
\* also an entry of all
C35_NewWithinAll ==
    [][Detect => \A i \in DOMAIN newDetections' :
                     \E j \in DOMAIN detections' :
                         detections'[j] = newDetections'[i]]_vars

\* C36 (as claimed): a detection's content is a function of its id: a
\* detection a scan creates has the same deltaV as every detection created
\* before it under the same id
C36_ContentFromId ==
    [][\A i \in DOMAIN created : \A j \in DOMAIN newDetections' :
           created[i].id = newDetections'[j].id
               => created[i].deltaV = newDetections'[j].deltaV]_vars

\* C37 (as claimed): the in-memory detection log is ordered by sample time:
\* timestamps are non-decreasing by index (so that its tail holds the most
\* recent detections by time)
C37_LogTimeOrdered ==
    \A i \in DOMAIN detections : \A j \in DOMAIN detections :
        i < j => detections[i].timeISO <= detections[j].timeISO

\* C38: a CSV export whose client does not disconnect ends the response, and
\* ends it once: the in-memory path in the handler itself, the store's path
\* when the stream reaches its end or raises an error; res.end() is never
\* called twice
C38_EndsOnce ==
    /\ [](exp.phase # "none" /\ exp.format = "csv" => exp.ends <= 1)
    /\ [](exp.phase = "done" /\ exp.format = "csv" /\ ~exp.aborted
              => exp.ended /\ exp.ends = 1)
    /\ (exp.phase = "streaming" /\ exp.format = "csv")
           ~> (exp.phase # "none"
               /\ (exp.aborted \/ (exp.phase = "done" /\ exp.ends = 1)))

\* a store-backed CSV export with rows written was ended by a stream error,
\* the client still being there
C38_Witness ==
    /\ exp.phase = "done"
    /\ exp.format = "csv"
    /\ exp.source = "store"
    /\ ~exp.aborted
    /\ exp.endedBy = "error"
    /\ exp.rows # <<>>
    /\ exp.ends = 1

\* C39 (as claimed): once the close listener of a store-backed CSV export
\* has run, no step of that export writes anything more to the response
C39_NoRowAfterClose ==
    [][(/\ exp.phase = "streaming"
        /\ exp.source = "store"
        /\ exp.aborted) => exp'.out = exp.out]_vars

====
